---- MODULE Spec2Model ----
(***************************************************************************)
(* depot-fs: block-group object store.  Model of the allocation and        *)
(* addressing engine (entity addresses, Bitmap64 allocator, FileSystem     *)
(* facade, Vfile stream) as a state machine.                               *)
(*                                                                         *)
(* The program's sizes are scaled down so that the state space is finite   *)
(* and small; every scaled constant names the source constant it stands    *)
(* for.  The relations between them are kept:                              *)
(*   BlockPointers = BlockSize / PtrBytes, a big run is WordBits blocks,   *)
(*   a bitmap word is WordBits / ByteBits bytes, MetaSize < BlockSize.     *)
(***************************************************************************)
EXTENDS Integers, Sequences, FiniteSets, TLC

\* ---------------------------------------------------------------- sizes
\* dpfs/meta.go DefaultBlockSize (8192 bytes), scaled
BlockSize == 2
\* bytes of one pointer in a pointer page (4, binary.LittleEndian.PutUint32), scaled
PtrBytes == 1
\* volume.go initParas: BlockPointers = BlockSize / 4
BlockPointers == BlockSize \div PtrBytes
\* core/fs.go DirectBlocks (8), scaled
DirectBlocks == 2
\* bits of one Bitmap64 word and blocks of one big run (64), scaled
WordBits == 4
\* bits of one bitmap byte (8), scaled
ByteBits == 2
\* superblock TotalGroups of the modelled store
TotalGroups == 2
\* superblock BlocksInGroup of the modelled store
BlocksInGroup == 16
\* dpfs/meta.go DefaultInodesRatio
InodesRatio == 4
InodesInGroup == BlocksInGroup \div InodesRatio
\* encoded metadata length of the modelled files (a multiple of FileMetaAlign, < BlockSize)
MetaLen == 1
\* ent.go: width of the index field of an entity address (2^20), scaled
IdxSpan == 16
\* ent.go: width of the group field of an entity address (2^11), scaled
GroupSpan == 4
\* ent.go: the big flag (0x80000000), scaled to the bit above the group field
BigFlag == IdxSpan * GroupSpan
\* modulus of the uint32 arithmetic of block indexes (2^32), scaled
U32Mod == 1048576
\* core/fs.go SingleIndirectLv .. TripleIndirectLv
TripleIndirectLv == 3

\* ---------------------------------------------------------------- bounds
\* largest number of bytes one Write call is given
MaxWrite == 3
\* largest file (in user bytes) the environment builds
MaxFileBytes == 11
\* largest number of CreateFile calls in one run
MaxCreates == 2
\* largest value of the clock read by CreateFile
MaxTime == 0
\* largest number of Write calls in one run
MaxWrites == 2
\* largest buffer one Read call is given
MaxRead == 3
\* largest number of times the client comes back to a file to write
MaxRewrites == 1

\* ---------------------------------------------------------------- helpers
Min(S) == CHOOSE x \in S : \A y \in S : x <= y
MinOf(a, b) == IF a <= b THEN a ELSE b
MaxOf(a, b) == IF a >= b THEN a ELSE b

RECURSIVE pow(_, _)
\* core/fs.go pow
pow(base, exp) == IF exp > 0 THEN base * pow(base, exp - 1) ELSE 1

\* uint32 subtraction (wraps below zero)
U32Sub(a, b) == IF a >= b THEN a - b ELSE a - b + U32Mod

Zeros(n) == [i \in 1..n |-> 0]

\* copy of seq with vals written from 0-based position at (cells past the end are dropped)
Overwrite(seq, at, vals) ==
    [i \in 1..Len(seq) |->
        IF i - 1 >= at /\ i - 1 < at + Len(vals) THEN vals[i - at] ELSE seq[i]]

\* file.WriteAt: vals written from 0-based position at, the file growing as needed
WriteAt(seq, at, vals) ==
    IF Len(vals) = 0 THEN seq
    ELSE [i \in 1..MaxOf(Len(seq), at + Len(vals)) |->
            IF i - 1 >= at /\ i - 1 < at + Len(vals) THEN vals[i - at]
            ELSE IF i <= Len(seq) THEN seq[i] ELSE 0]

\* 0-based slice seq[from:to]
Slice(seq, from, to) == IF to <= from THEN <<>> ELSE SubSeq(seq, from + 1, to)

\* ---------------------------------------------------------------- ent.go
RECURSIVE BitOr(_, _)
BitOr(a, b) ==
    IF a = 0 THEN b
    ELSE IF b = 0 THEN a
    ELSE 2 * BitOr(a \div 2, b \div 2) + (IF a % 2 = 1 \/ b % 2 = 1 THEN 1 ELSE 0)

\* EntAddr.GetAddr: idx, group, isBig
GetIdx(a) == a % IdxSpan
GetGroup(a) == (a \div IdxSpan) % GroupSpan
GetBig(a) == a \div (IdxSpan * GroupSpan)

\* the values of an entity address (a uint32), scaled: idx, group and big bit
EntWord == 2 * BigFlag

\* MakeEntAddr: group<<20 | idx, then | 0x80000000 when big; the shift drops
\* the bits above the word
MakeEntAddr(idx, group, isBigBlock) ==
    LET addr == BitOr((group * IdxSpan) % EntWord, idx)
    IN  IF isBigBlock THEN BitOr(addr, BigFlag) ELSE addr

\* ---------------------------------------------------------------- bitmap.go (Bitmap64)
\* A bitmap is [bits: the set of indexes of the set bits, n: number of words,
\*              freeBits, lastPos].
NewBitmap(nbits) ==
    [bits |-> {}, n |-> nbits \div WordBits, freeBits |-> nbits, lastPos |-> 0]

\* bits.TrailingZeros64(^b.bits[pos])
TrailingFree(bm, pos) ==
    LET fr == {o \in 0..(WordBits - 1) : (pos * WordBits + o) \notin bm.bits}
    IN  IF fr = {} THEN WordBits ELSE Min(fr)

\* b.bits[pos]>>of == 0
HighClear(bm, pos, of) == \A o \in of..(WordBits - 1) : (pos * WordBits + o) \notin bm.bits

\* the next word's low bits taken as clear without a look
LowClearUntested(bm, pos, of) == TRUE

\* b.bits[pos]&mask == 0 with mask = (1<<of)-1
LowClear(bm, pos, of) == \A o \in 0..(of - 1) : (pos * WordBits + o) \notin bm.bits

\* a run taken in the last word too
BigFitsLastWord(bm, pos, of, bigAlloc, need) ==
    /\ bigAlloc
    /\ need >= WordBits
    /\ \A o \in of..(WordBits - 1) : (pos * WordBits + o) \notin bm.bits
    /\ \A o \in 0..(of - 1) : ((pos + 1) * WordBits + o) \notin bm.bits

\* the condition under which Bitmap64.AllocBits takes a whole run at (pos, of)
BigFits(bm, pos, of, bigAlloc, need) ==
    /\ bigAlloc
    /\ need >= WordBits
    /\ HighClear(bm, pos, of)
    /\ pos < bm.n - 1
    /\ LowClear(bm, pos + 1, of)

RECURSIVE AllocScan(_, _, _, _, _, _, _, _)
\* the for-loop of Bitmap64.AllocBits from word pos on; ret is TRUE when the
\* loop returned from inside (enough bits or enough handles)
AllocScan(bm, pos, lst, cnt, gid, numBits, hlimit, bigAlloc) ==
    IF pos >= bm.n
    THEN [bm |-> bm, lst |-> lst, cnt |-> cnt, ret |-> FALSE]
    ELSE LET b1 == [bm EXCEPT !.lastPos = pos]
             of == TrailingFree(b1, pos)
         IN  IF of = WordBits
             THEN AllocScan(b1, pos + 1, lst, cnt, gid, numBits, hlimit, bigAlloc)
             ELSE IF BigFits(b1, pos, of, bigAlloc, numBits - cnt)
             THEN LET first == pos * WordBits + of
                      b2 == [b1 EXCEPT !.bits = @ \cup (first..(first + WordBits - 1)),
                                       !.freeBits = @ - WordBits]
                      l2 == Append(lst, MakeEntAddr(first, gid, TRUE))
                      c2 == cnt + WordBits
                  IN  IF c2 >= numBits \/ Len(l2) >= hlimit
                      THEN [bm |-> b2, lst |-> l2, cnt |-> c2, ret |-> TRUE]
                      ELSE AllocScan(b2, pos + 1, l2, c2, gid, numBits, hlimit, bigAlloc)
             ELSE LET bit == pos * WordBits + of
                      b2 == [b1 EXCEPT !.bits = @ \cup {bit}, !.freeBits = @ - 1]
                      l2 == Append(lst, MakeEntAddr(bit, gid, FALSE))
                      c2 == cnt + 1
                  IN  IF c2 >= numBits \/ Len(l2) >= hlimit
                      THEN [bm |-> b2, lst |-> l2, cnt |-> c2, ret |-> TRUE]
                      ELSE AllocScan(b2, pos, l2, c2, gid, numBits, hlimit, bigAlloc)

\* the scan from lastPos alone, without the second scan from 0
AllocBitsNoWrap(bm, gid, numBits, hlimit, bigAlloc) ==
    LET Scanned(r) == [bm |-> r.bm, lst |-> r.lst, cnt |-> r.cnt]
    IN  Scanned(AllocScan(bm, bm.lastPos, <<>>, 0, gid, numBits, hlimit, bigAlloc))

\* Bitmap64.AllocBits: scan from lastPos, then once more from 0
AllocBits(bm, gid, numBits, hlimit, bigAlloc) ==
    LET bpos == bm.lastPos
        Wrapped(r, r2) == [bm |-> r2.bm, lst |-> r.lst \o r2.lst, cnt |-> r.cnt + r2.cnt]
        Scanned(r) ==
            IF r.ret THEN [bm |-> r.bm, lst |-> r.lst, cnt |-> r.cnt]
            ELSE IF bpos # 0 /\ r.bm.freeBits > 0
            THEN Wrapped(r, AllocScan([r.bm EXCEPT !.lastPos = 0], 0, <<>>, 0, gid,
                                      numBits - r.cnt, hlimit, bigAlloc))
            ELSE [bm |-> r.bm, lst |-> r.lst, cnt |-> r.cnt]
    IN  Scanned(AllocScan(bm, bpos, <<>>, 0, gid, numBits, hlimit, bigAlloc))

\* checkBit / batchClearBits abort on a foreign group id or an index outside the bytes
BitmapBytes(bm) == (bm.n * WordBits) \div ByteBits

\* checkBit: "panic" or the bit
CheckBit(bm, gid, ptr) ==
    IF GetGroup(ptr) # gid \/ GetIdx(ptr) \div ByteBits >= BitmapBytes(bm)
    THEN "panic"
    ELSE IF GetIdx(ptr) \in bm.bits THEN "set" ELSE "clear"

\* does clearing ptr index outside the bitmap bytes (clearBits reads bitmap[endByte])
ClearAborts(bm, gid, p) ==
    \/ GetGroup(p) # gid
    \/ IF GetBig(p) > 0
       THEN (GetIdx(p) + WordBits) \div ByteBits >= BitmapBytes(bm)
       ELSE GetIdx(p) \div ByteBits >= BitmapBytes(bm)

RECURSIVE ClearBitsCountsHandles(_, _, _)
\* batchClearBits counting one per address, whatever its big flag
ClearBitsCountsHandles(bm, gid, ptrs) ==
    IF ptrs = <<>> THEN [bm |-> bm, panic |-> FALSE]
    ELSE LET p == Head(ptrs)
         IN  IF ClearAborts(bm, gid, p) THEN [bm |-> bm, panic |-> TRUE]
             ELSE IF GetBig(p) > 0
             THEN ClearBitsCountsHandles([bm EXCEPT
                                !.bits = @ \ (GetIdx(p)..(GetIdx(p) + WordBits - 1)),
                                !.freeBits = @ + 1], gid, Tail(ptrs))
             ELSE ClearBitsCountsHandles([bm EXCEPT !.bits = @ \ {GetIdx(p)},
                                       !.freeBits = @ + 1], gid, Tail(ptrs))

RECURSIVE ClearBits(_, _, _)
\* Bitmap64.ClearBits = batchClearBits + freeBits: [bm, panic]
ClearBits(bm, gid, ptrs) ==
    IF ptrs = <<>> THEN [bm |-> bm, panic |-> FALSE]
    ELSE LET p == Head(ptrs)
         IN  IF ClearAborts(bm, gid, p) THEN [bm |-> bm, panic |-> TRUE]
             ELSE IF GetBig(p) > 0
             THEN ClearBits([bm EXCEPT
                                !.bits = @ \ (GetIdx(p)..(GetIdx(p) + WordBits - 1)),
                                !.freeBits = @ + WordBits], gid, Tail(ptrs))
             ELSE ClearBits([bm EXCEPT !.bits = @ \ {GetIdx(p)},
                                       !.freeBits = @ + 1], gid, Tail(ptrs))

\* ---------------------------------------------------------------- core/fs.go: FileSystem
\* The store is the record
\*   [big      : the superblock's big-allocation flag,
\*    ib, bb   : group id -> Bitmap64 (inode bitmap, block bitmap),
\*    cur      : curBlockGroups,
\*    disk     : group id -> the cells of the block area of the group's volume file
\*               written so far (the file grows with the writes),
\*    inodes   : inode address -> the Inode record of the inode table,
\*    cache    : level -> (pointer-block address -> cached pointer array),
\*    mat      : the groups whose volume file exists (Volume.Status = 1),
\*    pib, pbb : group id -> the set bits of the inode-bitmap and block-bitmap
\*               bytes stored in the group's volume file].
Groups == 1..TotalGroups
InodePtrs == {MakeEntAddr(i, g, FALSE) : i \in 0..(InodesInGroup - 1), g \in Groups}
Levels == 1..3

\* Inode{} (zero value)
ZeroInode ==
    [Seq |-> 0, MetaSize |-> 0, Blocks |-> 0, FileSize |-> 0, CTime |-> 0,
     Direct |-> Zeros(DirectBlocks), Single |-> 0, Double |-> 0, Triple |-> 0]

\* MakeFileSystem on an empty root: initGroups, NewBlockCache, zeroed inode tables
NewFileSystem(enableBigAlloc) ==
    [big |-> enableBigAlloc,
     ib |-> [g \in Groups |-> NewBitmap(InodesInGroup)],
     bb |-> [g \in Groups |-> NewBitmap(BlocksInGroup)],
     cur |-> 0,
     disk |-> [g \in Groups |-> << >>],
     inodes |-> [p \in InodePtrs |-> ZeroInode],
     cache |-> [lv \in Levels |-> << >>],
     mat |-> {},
     pib |-> [g \in Groups |-> {}],
     pbb |-> [g \in Groups |-> {}]]

GroupOk(g) == g >= 1 /\ g <= TotalGroups

\* VolumeFiles.checkReady: a volume file that does not exist yet is created
\* with the bitmaps as they are in memory.  (The groups the modelled calls read
\* from hold an allocated inode or block, so that reads find the file made.)
checkReady(s, g) ==
    IF g \in s.mat THEN s
    ELSE [s EXCEPT !.mat = @ \cup {g}, !.pib[g] = s.ib[g].bits, !.pbb[g] = s.bb[g].bits]

\* the bits of the bitmap bytes offset .. offset + length - 1
BytesBits(offset, length) == (offset * ByteBits)..((offset + length) * ByteBits - 1)

\* file.WriteAt(bitmap.GetData(offset, length), offset + bitmap offset): the
\* stored bytes after the write, mem being the set bits in memory
StoreBytes(stored, mem, offset, length) ==
    (stored \ BytesBits(offset, length)) \cup (mem \cap BytesBits(offset, length))

\* bytes of a big run in mergeSeg (8)
SegBigLen == WordBits \div ByteBits

RECURSIVE MergeLoop(_, _, _, _, _)
\* the loop of mergeSeg over the addresses from i on
MergeLoop(addr, i, segs, lastof, lastLen) ==
    IF i > Len(addr)
    THEN IF lastof >= 0 THEN Append(segs, [offset |-> lastof, length |-> lastLen]) ELSE segs
    ELSE LET big == GetBig(addr[i]) > 0
             of == GetIdx(addr[i]) \div ByteBits
         IN  IF lastof < 0
             THEN MergeLoop(addr, i + 1, segs, of, IF big THEN SegBigLen ELSE lastLen)
             ELSE IF lastof + lastLen > of
             THEN MergeLoop(addr, i + 1, segs, lastof,
                            IF big THEN lastLen + SegBigLen ELSE lastLen)
             ELSE IF lastof + lastLen = of
             THEN MergeLoop(addr, i + 1, segs, lastof,
                            IF big THEN lastLen + SegBigLen ELSE lastLen + 1)
             ELSE MergeLoop(addr, i + 1, Append(segs, [offset |-> lastof, length |-> lastLen]),
                            of, 1)

RECURSIVE SegBits(_, _)
\* mergeSeg: the bits counter over the addresses from i on
SegBits(addr, i) ==
    IF i > Len(addr) THEN 0
    ELSE (IF GetBig(addr[i]) > 0 THEN WordBits ELSE 1) + SegBits(addr, i + 1)

\* mergeSeg: [segs, bits]
mergeSeg(addr) == [segs |-> MergeLoop(addr, 1, << >>, -1, 1), bits |-> SegBits(addr, 1)]

RECURSIVE WriteSegs(_, _, _, _)
\* for _, s := range segs { GetData(s.offset, s.length); file.WriteAt(...) } on
\* the block bitmap of group g: [s, panic]; GetData aborts on a span that runs
\* past the bitmap bytes
WriteSegs(s, g, segs, i) ==
    IF i > Len(segs) THEN [s |-> s, panic |-> FALSE]
    ELSE IF segs[i].offset + segs[i].length > BitmapBytes(s.bb[g])
    THEN [s |-> s, panic |-> TRUE]
    ELSE WriteSegs([s EXCEPT !.pbb[g] = StoreBytes(@, s.bb[g].bits, segs[i].offset,
                                                   segs[i].length)],
                   g, segs, i + 1)

\* FileSystem.syncBlockAlloc of group g: [s, panic]
syncBlockAlloc(s, g, blks) == WriteSegs(checkReady(s, g), g, mergeSeg(blks).segs, 1)

\* the inode-bitmap byte of inode index idx written to the volume file of
\* group g (allocInode, freeInode); the write fails, unnoticed, while the file
\* does not exist
syncInodeBit(s, g, idx) ==
    IF g \in s.mat
    THEN [s EXCEPT !.pib[g] = StoreBytes(@, s.ib[g].bits, idx \div ByteBits, 1)]
    ELSE s

RECURSIVE SumFree(_, _)
SumFree(bms, g) == IF g = 0 THEN 0 ELSE bms[g].freeBits + SumFree(bms, g - 1)
\* StatBlocks(-1) / StatInodes(-1): total free bits
StatBlocks(s) == SumFree(s.bb, TotalGroups)
StatInodes(s) == SumFree(s.ib, TotalGroups)

RECURSIVE HaveFreeLoop(_, _, _, _)
HaveFreeLoop(s, idx, cnt, numBlocks) ==
    LET left == numBlocks - s.bb[idx + 1].freeBits
    IN  IF left <= 0 THEN TRUE
        ELSE IF cnt + 1 >= TotalGroups THEN FALSE
        ELSE HaveFreeLoop(s, (idx + 1) % TotalGroups, cnt + 1, left)

\* a precheck that looks at the cursor's group alone
haveFreeBlocksInCursorGroup(s, numBlocks) == s.bb[s.cur + 1].freeBits >= numBlocks

\* FileSystem.haveFreeBlocks
haveFreeBlocks(s, numBlocks) == HaveFreeLoop(s, s.cur, 0, numBlocks)

\* the size in cells a block pointer addresses (readBlock / writeBlock: blksize)
BlkSize(ptr) == IF GetBig(ptr) > 0 THEN WordBits * BlockSize ELSE BlockSize

\* FileSystem.writeBlock: [s, wtn, broff, err, panic]
writeBlock(s, blkptr, data, offset) ==
    LET size == BlkSize(blkptr)
        g == GetGroup(blkptr)
        n == IF Len(data) >= size - offset THEN size - offset ELSE Len(data)
        broff == IF Len(data) >= size - offset THEN 0 ELSE offset + Len(data)
        pos == GetIdx(blkptr) * BlockSize + offset
    IN  IF offset >= size
        THEN [s |-> s, wtn |-> 0, broff |-> 0, err |-> "bad offset", panic |-> FALSE]
        ELSE IF ~GroupOk(g)
        THEN [s |-> s, wtn |-> 0, broff |-> 0, err |-> "", panic |-> TRUE]
        ELSE [s |-> [s EXCEPT !.disk[g] = WriteAt(@, pos, Slice(data, 0, n))],
              wtn |-> n, broff |-> broff, err |-> "", panic |-> FALSE]

\* FileSystem.readBlock into a buffer of n cells: [data, rdn, left, err, panic]
\* (file.ReadAt returns io.EOF when the file ends before the requested cells)
readBlock(s, blkptr, offset, n) ==
    LET blksize == BlkSize(blkptr)
        g == GetGroup(blkptr)
        size == MinOf(blksize - offset, n)
        left == blksize - size - offset
        pos == GetIdx(blkptr) * BlockSize + offset
        avail == MaxOf(0, MinOf(size, Len(s.disk[g]) - pos))
    IN  IF ~GroupOk(g) \/ size < 0
        THEN [data |-> <<>>, rdn |-> 0, left |-> 0, err |-> "", panic |-> TRUE]
        ELSE IF avail < size
        THEN [data |-> Slice(s.disk[g], pos, pos + avail), rdn |-> avail, left |-> left,
              err |-> "EOF", panic |-> FALSE]
        ELSE [data |-> Slice(s.disk[g], pos, pos + size), rdn |-> size, left |-> left,
              err |-> "", panic |-> FALSE]

\* FileSystem.writePointer (one cell per pointer)
writePointer(s, block, blockptrs, offset) == writeBlock(s, block, blockptrs, offset * PtrBytes)

\* BlockCache.Get / Put (levels 1..3 only)
CacheHas(s, lv, ptr) == lv \in Levels /\ ptr \in DOMAIN s.cache[lv]
CachePut(s, lv, ptr, arr) ==
    IF lv \in Levels
    THEN [s EXCEPT !.cache[lv] = [a \in (DOMAIN @) \cup {ptr} |-> IF a = ptr THEN arr ELSE @[a]]]
    ELSE s

\* FileSystem.writePointerWithCache: [s, err, panic]
writePointerWithCache(s, block, blockptrs, offset, lv) ==
    LET Written(w) ==
            IF w.panic \/ w.err # "" THEN [s |-> w.s, err |-> w.err, panic |-> w.panic]
            ELSE IF CacheHas(w.s, lv, block)
            THEN IF offset + Len(blockptrs) <= Len(w.s.cache[lv][block])
                 THEN [s |-> [w.s EXCEPT !.cache[lv][block] = Overwrite(@, offset, blockptrs)],
                       err |-> "", panic |-> FALSE]
                 ELSE [s |-> w.s, err |-> "", panic |-> FALSE]
            ELSE IF Len(blockptrs) = BlockPointers
            THEN [s |-> CachePut(w.s, lv, block, blockptrs), err |-> "", panic |-> FALSE]
            ELSE [s |-> w.s, err |-> "", panic |-> FALSE]
    IN  Written(writePointer(s, block, blockptrs, offset))

\* FileSystem.readPointer of n pointers from entry offset: [ptrs, err, panic]
readPointer(s, blkptr, n, offset) ==
    LET Got(r) ==
            IF r.panic THEN [ptrs |-> <<>>, err |-> "", panic |-> TRUE]
            ELSE IF r.err # "" THEN [ptrs |-> <<>>, err |-> r.err, panic |-> FALSE]
            ELSE IF r.rdn # PtrBytes * n
            THEN [ptrs |-> <<>>, err |-> "bad blockptrs length", panic |-> FALSE]
            ELSE [ptrs |-> r.data, err |-> "", panic |-> FALSE]
    IN  Got(readBlock(s, blkptr, PtrBytes * offset, PtrBytes * n))

\* FileSystem.readPointerWithCache: [s, ptrs, err, panic]
readPointerWithCache(s, blkptr, n, offset, lv) ==
    LET Got(r) ==
            IF r.panic \/ r.err # ""
            THEN [s |-> s, ptrs |-> <<>>, err |-> r.err, panic |-> r.panic]
            ELSE IF offset = 0 /\ n = BlockPointers
            THEN [s |-> CachePut(s, lv, blkptr, r.ptrs), ptrs |-> r.ptrs, err |-> "",
                  panic |-> FALSE]
            ELSE [s |-> s, ptrs |-> r.ptrs, err |-> "", panic |-> FALSE]
    IN  IF CacheHas(s, lv, blkptr)
        THEN IF offset + n <= Len(s.cache[lv][blkptr])
             THEN [s |-> s, ptrs |-> Slice(s.cache[lv][blkptr], offset, offset + n),
                   err |-> "", panic |-> FALSE]
             ELSE [s |-> s, ptrs |-> <<>>, err |-> "Bad pointer offset", panic |-> FALSE]
        ELSE Got(readPointer(s, blkptr, n, offset))

RECURSIVE AllocBlocksLoop(_, _, _, _, _, _, _)
\* the rotation loop of FileSystem.allocBlocks: [s, blks, left, panic]
AllocBlocksLoop(s, idx, cnt, numBlocks, blks, hlimit, bigAlloc) ==
    LET limit == hlimit - Len(blks)
        g == idx + 1
        has == s.bb[g].freeBits > 0
        nidx == (idx + 1) % TotalGroups
        \* the end of one round: s1, n1, b1 are the store, numBlocks and allocatedBlocks
        Round(s1, n1, b1) ==
            IF has /\ (n1 <= 0 \/ Len(b1) = hlimit)
            THEN [s |-> s1, blks |-> b1, left |-> n1, panic |-> FALSE]
            ELSE IF cnt + 1 >= TotalGroups
            THEN [s |-> [s1 EXCEPT !.cur = nidx], blks |-> b1, left |-> n1, panic |-> FALSE]
            ELSE AllocBlocksLoop([s1 EXCEPT !.cur = nidx], nidx, cnt + 1, n1, b1, hlimit,
                                 bigAlloc)
        Synced(y, a) ==
            IF y.panic
            THEN [s |-> y.s, blks |-> blks \o a.lst, left |-> numBlocks - a.cnt, panic |-> TRUE]
            ELSE Round(y.s, numBlocks - a.cnt, blks \o a.lst)
        Took(a) == Synced(syncBlockAlloc([s EXCEPT !.bb[g] = a.bm], g, a.lst), a)
    IN  IF limit = 0 THEN [s |-> s, blks |-> blks, left |-> numBlocks, panic |-> FALSE]
        ELSE IF has THEN Took(AllocBits(s.bb[g], g, numBlocks, limit, bigAlloc))
        ELSE Round(s, numBlocks, blks)

\* an IsBigAllocEnabled that does not read the superblock's flag
BigAllocAlwaysEnabled(s) == TRUE

\* SuperBlock.IsBigAllocEnabled
IsBigAllocEnabled(s) == s.big

\* FileSystem.allocBlocks: [s, blks, got, err, panic]
allocBlocks(s, numBlocks, hlimit, bigAllocArg) ==
    LET bigAlloc == IF ~IsBigAllocEnabled(s) THEN FALSE ELSE bigAllocArg
        Done(r) ==
            IF r.panic
            THEN [s |-> r.s, blks |-> r.blks, got |-> numBlocks - r.left, err |-> "",
                  panic |-> TRUE]
            ELSE IF r.left > 0 /\ Len(r.blks) < hlimit
            THEN [s |-> r.s, blks |-> r.blks, got |-> numBlocks - r.left,
                  err |-> "Not enough free blocks", panic |-> FALSE]
            ELSE [s |-> r.s, blks |-> r.blks, got |-> numBlocks - r.left, err |-> "",
                  panic |-> FALSE]
    IN  IF ~haveFreeBlocks(s, numBlocks)
        THEN [s |-> s, blks |-> <<>>, got |-> 0, err |-> "Not enough free blocks",
              panic |-> FALSE]
        ELSE Done(AllocBlocksLoop(s, s.cur, 0, numBlocks, <<>>, hlimit, bigAlloc))

\* an allocOneBlock that takes two blocks and hands out the first
allocOneBlockOfTwo(s) ==
    LET Done(r) ==
            IF r.panic THEN [s |-> r.s, blk |-> 0, err |-> "", panic |-> TRUE]
            ELSE IF r.err # "" THEN [s |-> r.s, blk |-> 0, err |-> r.err, panic |-> FALSE]
            ELSE IF Len(r.blks) = 0
            THEN [s |-> r.s, blk |-> 0, err |-> "alloc block failed", panic |-> FALSE]
            ELSE [s |-> r.s, blk |-> r.blks[1], err |-> "", panic |-> FALSE]
    IN  Done(allocBlocks(s, 2, 2, FALSE))

\* FileSystem.allocOneBlock: [s, blk, err, panic]
allocOneBlock(s) ==
    LET Done(r) ==
            IF r.panic THEN [s |-> r.s, blk |-> 0, err |-> "", panic |-> TRUE]
            ELSE IF r.err # "" THEN [s |-> r.s, blk |-> 0, err |-> r.err, panic |-> FALSE]
            ELSE IF Len(r.blks) = 0
            THEN [s |-> r.s, blk |-> 0, err |-> "alloc block failed", panic |-> FALSE]
            ELSE [s |-> r.s, blk |-> r.blks[1], err |-> "", panic |-> FALSE]
    IN  Done(allocBlocks(s, 1, 1, FALSE))

RECURSIVE AllocInodeLoop(_, _, _)
AllocInodeLoop(s, cur, i) ==
    LET g == cur + 1
        Took(a) ==
            IF Len(a.lst) > 0
            THEN [s |-> syncInodeBit([s EXCEPT !.ib[g] = a.bm], g, GetIdx(a.lst[1])),
                  ptr |-> a.lst[1], err |-> ""]
            ELSE AllocInodeLoop(s, (cur + 1) % TotalGroups, i + 1)
    IN  IF i >= TotalGroups THEN [s |-> s, ptr |-> 0, err |-> "No free inodes"]
        ELSE IF s.ib[g].freeBits > 0 THEN Took(AllocBits(s.ib[g], g, 1, 1, FALSE))
        ELSE AllocInodeLoop(s, (cur + 1) % TotalGroups, i + 1)
\* FileSystem.allocInode: [s, ptr, err]
allocInode(s) == AllocInodeLoop(s, s.cur, 0)

\* FileSystem.syncInode
syncInode(s, p, node) == [checkReady(s, GetGroup(p)) EXCEPT !.inodes[p] = node]

\* FileKey.ToString / FileSystem.inode2Uid: shard | inodeptr | seq | uint32(ctime)
ShardId == 0
\* a key built without the seq field
inode2UidNoSeq(inodeptr, inode) == <<ShardId, inodeptr, 0, inode.CTime>>

inode2Uid(inodeptr, inode) == <<ShardId, inodeptr, inode.Seq, inode.CTime>>
\* FileKey.ParseKey: the inodeptr field
KeyInodeptr(uid) == uid[2]

\* Vfile.aliginBlock
aliginBlock(size) == (size + BlockSize - 1) \div BlockSize

\* uint32(pow(BlockPointers, lv)) as the level tests of writeIndirectBlocks and
\* readIndirectBlocks compute it: with BlockPointers = 2048 the cube is 2^33,
\* which converts to 0
LevelSpan(lv) == IF lv = TripleIndirectLv THEN 0 ELSE pow(BlockPointers, lv)

\* ---------------------------------------------------------------- core/fs.go: Vfile.Write
\* A call works on the context
\*   [s: store, node: vf.Inode, off: vf.offset, data: bytes still to write,
\*    tot: bytes written, n: bytes written by the last helper, err, panic, done].
Advance(off, wtn, broff) ==
    [offset |-> off.offset + wtn, rem |-> broff,
     blockIdx |-> IF broff = 0 THEN off.blockIdx + 1 ELSE off.blockIdx]

Rest(data, wtn) == Slice(data, wtn, Len(data))

RECURSIVE WriteNewDirect(_, _, _)
\* the loop over the fresh blocks nb in the direct branch of Write
WriteNewDirect(c, nb, i) ==
    LET node1 == [c.node EXCEPT !.Direct[c.off.blockIdx + 1] = nb[i]]
        Written(w) ==
            IF w.panic THEN [c EXCEPT !.node = node1, !.panic = TRUE]
            ELSE IF w.err # "" THEN [c EXCEPT !.node = node1, !.err = w.err, !.tot = 0]
            ELSE WriteNewDirect(
                   [c EXCEPT !.s = w.s,
                             !.node = [node1 EXCEPT !.FileSize = @ + w.wtn, !.Blocks = @ + 1],
                             !.data = Rest(c.data, w.wtn),
                             !.tot = @ + w.wtn,
                             !.off = Advance(c.off, w.wtn, w.broff)],
                   nb, i + 1)
    IN  IF i > Len(nb) THEN c
        ELSE IF c.off.blockIdx >= DirectBlocks THEN [c EXCEPT !.panic = TRUE]
        ELSE Written(writeBlock(c.s, nb[i], c.data, 0))

RECURSIVE WriteDirectLoop(_, _)
\* Write: for vf.offset.blockIdx < DirectBlocks { ... }
WriteDirectLoop(c, p) ==
    LET \* the slot holds a block: write into it
        Onward(c1) == IF Len(c1.data) = 0 THEN [c1 EXCEPT !.done = TRUE]
                     ELSE WriteDirectLoop(c1, p)
        Written(w) ==
            IF w.panic THEN [c EXCEPT !.panic = TRUE]
            ELSE IF w.err # "" THEN [c EXCEPT !.err = w.err, !.done = TRUE]
            ELSE Onward([c EXCEPT !.s = syncInode(w.s, p, [c.node EXCEPT !.FileSize = @ + w.wtn]),
                                 !.node = [@ EXCEPT !.FileSize = @ + w.wtn],
                                 !.data = Rest(c.data, w.wtn), !.tot = @ + w.wtn,
                                 !.off = Advance(c.off, w.wtn, w.broff)])
        \* the slot is empty: allocate and fill
        Filled(f) ==
            IF f.panic \/ f.err # "" THEN [f EXCEPT !.done = TRUE]
            ELSE Onward([f EXCEPT !.s = syncInode(f.s, p, f.node)])
        Allocated(a) ==
            IF a.panic THEN [c EXCEPT !.s = a.s, !.panic = TRUE, !.done = TRUE]
            ELSE IF a.err # "" THEN [c EXCEPT !.s = a.s, !.err = a.err, !.done = TRUE]
            ELSE Filled(WriteNewDirect([c EXCEPT !.s = a.s], a.blks, 1))
    IN  IF c.off.blockIdx >= DirectBlocks THEN c
        ELSE IF c.node.Direct[c.off.blockIdx + 1] # 0
        THEN Written(writeBlock(c.s, c.node.Direct[c.off.blockIdx + 1], c.data, c.off.rem))
        ELSE Allocated(allocBlocks(c.s, aliginBlock(Len(c.data)),
                                   DirectBlocks - c.off.blockIdx, TRUE))

RECURSIVE BatchWriteLoop(_, _, _)
\* the loop over the fresh blocks in batchWriteNewBlk
BatchWriteLoop(c, blks, i) ==
    LET Written(w) ==
            IF w.panic THEN [c EXCEPT !.panic = TRUE]
            ELSE IF w.err # "" THEN [c EXCEPT !.err = w.err, !.n = w.wtn]
            ELSE BatchWriteLoop(
                   [c EXCEPT !.s = w.s,
                             !.node = [@ EXCEPT !.FileSize = @ + w.wtn, !.Blocks = @ + 1],
                             !.data = Rest(c.data, w.wtn),
                             !.n = @ + w.wtn,
                             !.off = Advance(c.off, w.wtn, w.broff)],
                   blks, i + 1)
    IN  IF i > Len(blks) THEN c
        ELSE Written(writeBlock(c.s, blks[i], c.data, 0))

\* Vfile.batchWriteNewBlk
batchWriteNewBlk(c, p, blockptr, blockIndex) ==
    LET batchLimit == BlockPointers - blockIndex
        Filled(f) ==
            IF f.panic \/ f.err # "" THEN f
            ELSE [f EXCEPT !.s = syncInode(f.s, p, f.node)]
        Pointed(wp, blks) ==
            IF wp.panic THEN [c EXCEPT !.s = wp.s, !.panic = TRUE]
            ELSE IF wp.err # "" THEN [c EXCEPT !.s = wp.s, !.err = wp.err, !.n = 0]
            ELSE Filled(BatchWriteLoop([c EXCEPT !.s = wp.s, !.n = 0], blks, 1))
        Allocated(a) ==
            IF a.panic THEN [c EXCEPT !.s = a.s, !.panic = TRUE]
            ELSE IF a.err # "" THEN [c EXCEPT !.s = a.s, !.err = a.err, !.n = 0]
            ELSE Pointed(writePointerWithCache(a.s, blockptr, a.blks, blockIndex, 1), a.blks)
    IN  Allocated(allocBlocks(c.s, aliginBlock(Len(c.data)), batchLimit, TRUE))

RECURSIVE writeToIndirect(_, _, _, _, _)
\* Vfile.writeToIndirect
writeToIndirect(c, p, blockptr, blockIndex, depth) ==
    LET span == pow(BlockPointers, depth - 1)
        indirectIndex == blockIndex \div span
        \* depth 0: blockptr is the data block
        Written(w) ==
            IF w.panic THEN [c EXCEPT !.panic = TRUE]
            ELSE IF w.err # "" THEN [c EXCEPT !.err = w.err, !.n = w.wtn]
            ELSE LET o1 == c.off.offset + w.wtn
                     node1 == [c.node EXCEPT
                                  !.Blocks = IF c.off.rem = 0 THEN @ + 1 ELSE @,
                                  !.FileSize = IF o1 > @ THEN o1 ELSE @]
                 IN  [c EXCEPT !.s = syncInode(w.s, p, node1), !.node = node1,
                               !.data = Rest(c.data, w.wtn), !.n = w.wtn,
                               !.off = Advance(c.off, w.wtn, w.broff)]
        \* depth > 0: the entry of the pointer page is empty, a block is made for it
        Linked(u, blk) ==
            IF u.panic THEN [c EXCEPT !.s = u.s, !.panic = TRUE]
            ELSE IF u.err # "" THEN [c EXCEPT !.s = u.s, !.err = u.err, !.n = 0]
            ELSE writeToIndirect([c EXCEPT !.s = u.s], p, blk, blockIndex % span, depth - 1)
        Zeroed(z, blk) ==
            IF z.panic THEN [c EXCEPT !.s = z.s, !.panic = TRUE]
            ELSE IF z.err # "" THEN [c EXCEPT !.s = z.s, !.err = z.err, !.n = 0]
            ELSE Linked(writePointerWithCache(z.s, blockptr, <<blk>>, indirectIndex, depth),
                        blk)
        Allocated(a) ==
            IF a.panic THEN [c EXCEPT !.s = a.s, !.panic = TRUE]
            ELSE IF a.err # "" THEN [c EXCEPT !.s = a.s, !.err = a.err, !.n = 0]
            ELSE Zeroed(writePointerWithCache(a.s, a.blk, Zeros(BlockPointers), 0, depth - 1),
                        a.blk)
        Looked(r) ==
            IF r.panic THEN [c EXCEPT !.panic = TRUE]
            ELSE IF r.err # "" /\ r.err # "EOF" THEN [c EXCEPT !.s = r.s, !.err = r.err, !.n = 0]
            ELSE IF r.err = "" /\ r.ptrs[1] # 0
            THEN writeToIndirect([c EXCEPT !.s = r.s], p, r.ptrs[1], blockIndex % span,
                                 depth - 1)
            ELSE Allocated(allocOneBlock(r.s))
    IN  IF depth = 1 /\ c.off.blockIdx >= c.node.Blocks
        THEN batchWriteNewBlk(c, p, blockptr, blockIndex)
        ELSE IF depth = 0
        THEN Written(writeBlock(c.s, blockptr, c.data, c.off.rem))
        ELSE Looked(readPointerWithCache(c.s, blockptr, 1, indirectIndex, depth))

RECURSIVE WriteLevels(_, _, _, _)
\* Vfile.writeIndirectBlocks: the loop over the three levels
WriteLevels(c, p, blockIndex, lv) ==
    LET root == IF lv = 1 THEN c.node.Single ELSE IF lv = 2 THEN c.node.Double
                ELSE c.node.Triple
        Rooted(z, blk) ==
            LET node1 == IF lv = 1 THEN [c.node EXCEPT !.Single = blk]
                         ELSE IF lv = 2 THEN [c.node EXCEPT !.Double = blk]
                         ELSE [c.node EXCEPT !.Triple = blk]
            IN  IF z.panic THEN [c EXCEPT !.s = z.s, !.panic = TRUE]
                ELSE IF z.err # "" THEN [c EXCEPT !.s = z.s, !.err = z.err, !.n = 0]
                ELSE writeToIndirect([c EXCEPT !.s = syncInode(z.s, p, node1), !.node = node1],
                                     p, blk, blockIndex, lv)
        Allocated(a) ==
            IF a.panic THEN [c EXCEPT !.s = a.s, !.panic = TRUE]
            ELSE IF a.err # "" THEN [c EXCEPT !.s = a.s, !.err = a.err, !.n = 0]
            ELSE Rooted(writePointerWithCache(a.s, a.blk, Zeros(BlockPointers), 0, lv), a.blk)
    IN  IF lv > TripleIndirectLv THEN [c EXCEPT !.err = "system full", !.n = 0]
        ELSE IF blockIndex < LevelSpan(lv)
        THEN IF root # 0 THEN writeToIndirect(c, p, root, blockIndex, lv)
             ELSE Allocated(allocOneBlock(c.s))
        ELSE WriteLevels(c, p,
                         IF lv # TripleIndirectLv THEN U32Sub(blockIndex, LevelSpan(lv))
                         ELSE blockIndex,
                         lv + 1)

writeIndirectBlocks(c, p, blockIndex) == WriteLevels(c, p, blockIndex, 1)

RECURSIVE WriteIndirectLoop(_, _)
\* Write: for len(data) > 0 { ... } and the final test
WriteIndirectLoop(c, p) ==
    LET Wrote(r) ==
            IF r.panic \/ r.err # "" THEN r
            ELSE IF r.n = 0 THEN [r EXCEPT !.err = "Fill system full"]
            ELSE WriteIndirectLoop([r EXCEPT !.tot = @ + r.n], p)
    IN  IF Len(c.data) = 0 THEN c
        ELSE IF c.off.blockIdx < DirectBlocks
        THEN [c EXCEPT !.err = "Inner err,Wrong inode.Blocks"]
        ELSE Wrote(writeIndirectBlocks(c, p, U32Sub(c.off.blockIdx, DirectBlocks)))

\* Vfile.Write(data) on the handle (p, node, off)
Write(s, p, node, off, data) ==
    LET Direct(d) == IF d.done \/ d.panic THEN d ELSE WriteIndirectLoop(d, p)
    IN  Direct(WriteDirectLoop([s |-> s, node |-> node, off |-> off, data |-> data,
                                tot |-> 0, n |-> 0, err |-> "", panic |-> FALSE,
                                done |-> FALSE], p))

\* ---------------------------------------------------------------- core/fs.go: Vfile.Read
\* A call works on the context [s, off, out: bytes read so far, err, panic];
\* want is the length of the (clamped) buffer.
AfterRead(off, rd, left) ==
    IF left = 0 THEN [off EXCEPT !.blockIdx = @ + 1, !.rem = 0]
    ELSE [off EXCEPT !.rem = @ + rd]

RECURSIVE ReadDirectLoop(_, _, _, _)
\* Read: for i := vf.offset.blockIdx; i < DirectBlocks; i++ { ... }
ReadDirectLoop(c, node, i, want) ==
    LET Got(r) ==
            LET c1 == [c EXCEPT !.off = AfterRead([c.off EXCEPT !.blockIdx = i], r.rdn, r.left),
                                !.out = @ \o r.data]
            IN  IF r.panic THEN [c EXCEPT !.panic = TRUE]
                ELSE IF r.err # "" THEN [c1 EXCEPT !.err = r.err]
                ELSE IF Len(c1.out) = want THEN c1
                ELSE ReadDirectLoop(c1, node, i + 1, want)
    IN  IF i >= DirectBlocks THEN c
        ELSE IF node.Direct[i + 1] = 0 THEN c
        ELSE Got(readBlock(c.s, node.Direct[i + 1], c.off.rem, want - Len(c.out)))

RECURSIVE ReadLeafLoop(_, _, _, _)
\* readFromIndirect, depth 1: the loop over the data blocks of a pointer page
ReadLeafLoop(c, blockptrs, i, want) ==
    LET Got(r) ==
            LET c1 == [c EXCEPT !.off = AfterRead(c.off, r.rdn, r.left), !.out = @ \o r.data]
            IN  IF r.panic THEN [c EXCEPT !.panic = TRUE]
                ELSE IF r.err # "" THEN [c EXCEPT !.out = @ \o r.data, !.err = r.err]
                ELSE IF Len(c1.out) >= want THEN c1
                ELSE ReadLeafLoop(c1, blockptrs, i + 1, want)
    IN  IF i >= BlockPointers THEN c
        ELSE Got(readBlock(c.s, blockptrs[i + 1], c.off.rem, want - Len(c.out)))

RECURSIVE readFromIndirect(_, _, _, _, _)
RECURSIVE ReadInnerLoop(_, _, _, _, _, _, _)
\* readFromIndirect, depth > 1: the loop over the pointer pages below
ReadInnerLoop(c, blockptrs, i, blkIdx, blockIndex, want, depth) ==
    LET offset == IF i = blkIdx THEN blockIndex % pow(BlockPointers, depth - 1) ELSE 0
        Got(r) ==
            IF r.panic \/ r.err # "" THEN r
            ELSE IF Len(r.out) >= want THEN r
            ELSE ReadInnerLoop(r, blockptrs, i + 1, blkIdx, blockIndex, want, depth)
    IN  IF i >= BlockPointers THEN c
        ELSE IF blockptrs[i + 1] = 0 THEN [c EXCEPT !.err = "read from unallocated block"]
        ELSE Got(readFromIndirect(c, blockptrs[i + 1], offset, want, depth - 1))

\* Vfile.readFromIndirect
readFromIndirect(c, blockptr, blockIndex, want, depth) ==
    LET blkIdx == blockIndex \div pow(BlockPointers, depth - 1)
        Got(r) ==
            IF r.panic THEN [c EXCEPT !.panic = TRUE]
            ELSE IF r.err # "" THEN [c EXCEPT !.err = r.err]
            ELSE IF depth = 1 THEN ReadLeafLoop([c EXCEPT !.s = r.s], r.ptrs, blkIdx, want)
            ELSE ReadInnerLoop([c EXCEPT !.s = r.s], r.ptrs, blkIdx, blkIdx, blockIndex, want,
                               depth)
    IN  Got(readPointerWithCache(c.s, blockptr, BlockPointers, 0, depth))

RECURSIVE ReadLevels(_, _, _, _, _)
\* Vfile.readIndirectBlocks: the loop over the three levels
ReadLevels(c, node, blockIndex, want, lv) ==
    IF lv > TripleIndirectLv THEN [c EXCEPT !.err = "system full"]
    ELSE IF blockIndex < LevelSpan(lv)
    THEN LET root == IF lv = 1 THEN node.Single ELSE IF lv = 2 THEN node.Double
                     ELSE node.Triple
         IN  IF root = 0 THEN [c EXCEPT !.err = "bad indirect block id"]
             ELSE readFromIndirect(c, root, blockIndex, want, lv)
    ELSE ReadLevels(c, node,
                    IF lv # TripleIndirectLv THEN U32Sub(blockIndex, LevelSpan(lv))
                    ELSE blockIndex,
                    want, lv + 1)

readIndirectBlocks(c, node, blockIndex, want) == ReadLevels(c, node, blockIndex, want, 1)

RECURSIVE ReadIndirectLoop(_, _, _)
\* Read: for rdn < len(data) { ... }
ReadIndirectLoop(c, node, want) ==
    LET Got(r) ==
            IF r.panic \/ r.err # "" THEN r
            ELSE IF Len(r.out) = Len(c.out) THEN r
            ELSE ReadIndirectLoop(r, node, want)
    IN  IF Len(c.out) >= want THEN c
        ELSE Got(readIndirectBlocks(c, node, U32Sub(c.off.blockIdx, DirectBlocks), want))

\* Vfile.Read(data) with len(data) = k on the handle (node, off):
\* [s, off, out, rdn, err, panic]
Read(s, node, off, k) ==
    LET want == IF off.offset + k > node.FileSize THEN node.FileSize - off.offset ELSE k
        Done(e) ==
            IF e.panic \/ e.err # ""
            THEN [s |-> e.s, off |-> e.off, out |-> e.out, rdn |-> Len(e.out), err |-> e.err,
                  panic |-> e.panic]
            ELSE [s |-> e.s, off |-> [e.off EXCEPT !.offset = @ + Len(e.out)], out |-> e.out,
                  rdn |-> Len(e.out), err |-> "", panic |-> FALSE]
        Direct(d) == Done(IF d.panic \/ d.err # "" THEN d ELSE ReadIndirectLoop(d, node, want))
    IN  IF off.offset >= node.FileSize
        THEN [s |-> s, off |-> off, out |-> << >>, rdn |-> 0, err |-> "EOF", panic |-> FALSE]
        ELSE Direct(ReadDirectLoop([s |-> s, off |-> off, out |-> << >>, err |-> "",
                                    panic |-> FALSE], node, off.blockIdx, want))

\* ---------------------------------------------------------------- core/fs.go: Vfile.SeekPos
RECURSIVE EscapeLeafLoop(_, _, _, _)
\* escapeBlock, depth 1: [off, ok, err, panic]
EscapeLeafLoop(off, blockptrs, i, pos) ==
    IF i > Len(blockptrs) THEN [off |-> off, ok |-> FALSE, err |-> "", panic |-> FALSE]
    ELSE IF blockptrs[i] = 0 THEN [off |-> off, ok |-> FALSE, err |-> "EOF", panic |-> FALSE]
    ELSE LET blksize == BlkSize(blockptrs[i])
             o1 == [off EXCEPT !.blockIdx = @ + 1]
         IN  IF o1.offset + blksize > pos
             THEN [off |-> [o1 EXCEPT !.rem = pos - o1.offset, !.offset = pos],
                   ok |-> TRUE, err |-> "", panic |-> FALSE]
             ELSE IF o1.offset + blksize = pos
             THEN [off |-> [o1 EXCEPT !.blockIdx = @ + 1, !.offset = pos],
                   ok |-> TRUE, err |-> "", panic |-> FALSE]
             ELSE EscapeLeafLoop([o1 EXCEPT !.offset = @ + blksize], blockptrs, i + 1, pos)

RECURSIVE escapeBlock(_, _, _, _, _)
RECURSIVE EscapeInnerLoop(_, _, _, _, _, _)
EscapeInnerLoop(s, off, blockptrs, i, depth, pos) ==
    LET Got(r) ==
            IF r.panic \/ r.err # "" \/ r.ok THEN r
            ELSE EscapeInnerLoop(s, r.off, blockptrs, i + 1, depth, pos)
    IN  IF i > Len(blockptrs) THEN [off |-> off, ok |-> FALSE, err |-> "", panic |-> FALSE]
        ELSE Got(escapeBlock(s, off, blockptrs[i], depth - 1, pos))

\* Vfile.escapeBlock
escapeBlock(s, off, ptr, depth, pos) ==
    LET Got(r) ==
            IF r.panic THEN [off |-> off, ok |-> FALSE, err |-> "", panic |-> TRUE]
            ELSE IF r.err # "" THEN [off |-> off, ok |-> FALSE, err |-> r.err, panic |-> FALSE]
            ELSE IF depth = 1 THEN EscapeLeafLoop(off, r.ptrs, 1, pos)
            ELSE EscapeInnerLoop(s, off, r.ptrs, 1, depth, pos)
    IN  Got(readPointer(s, ptr, BlockPointers, 0))

RECURSIVE SeekLevels(_, _, _, _, _)
\* SeekPos: the loop over the three levels
SeekLevels(s, node, off, lv, pos) ==
    LET root == IF lv = 1 THEN node.Single ELSE IF lv = 2 THEN node.Double
                ELSE node.Triple
        Got(r) ==
            IF r.panic \/ r.err # "" \/ r.ok
            THEN [off |-> r.off, err |-> r.err, panic |-> r.panic]
            ELSE SeekLevels(s, node, r.off, lv + 1, pos)
    IN  IF lv > TripleIndirectLv
        THEN [off |-> off, err |-> "system error", panic |-> FALSE]
        ELSE Got(escapeBlock(s, off, root, lv, pos))

RECURSIVE SeekDirectLoop(_, _, _, _, _)
\* SeekPos: for i := vf.offset.blockIdx; i < DirectBlocks; i++ { ... }
SeekDirectLoop(s, node, off, i, pos) ==
    IF i >= DirectBlocks THEN SeekLevels(s, node, off, 1, pos)
    ELSE IF node.Direct[i + 1] = 0 THEN [off |-> off, err |-> "", panic |-> FALSE]
    ELSE LET full == BlkSize(node.Direct[i + 1])
             blksize == IF off.rem # 0 THEN full - off.rem ELSE full
             o1 == [off EXCEPT !.blockIdx = i]
         IN  IF o1.offset + blksize > pos
             THEN [off |-> [o1 EXCEPT !.rem = @ + (pos - o1.offset), !.offset = pos],
                   err |-> "", panic |-> FALSE]
             ELSE IF o1.offset + blksize = pos
             THEN [off |-> [o1 EXCEPT !.rem = 0, !.blockIdx = @ + 1, !.offset = pos],
                   err |-> "", panic |-> FALSE]
             ELSE SeekDirectLoop(s, node, [o1 EXCEPT !.offset = @ + blksize, !.rem = 0],
                                 i + 1, pos)

\* Vfile.SeekPos(pos) on the handle (node): [off, err, panic]
SeekPos(s, node, pos) ==
    SeekDirectLoop(s, node, [offset |-> 0, blockIdx |-> 0, rem |-> node.MetaSize], 0, pos)

\* ---------------------------------------------------------------- core/fs.go: files
\* the cell value of the bytes FileMeta.ToBytes yields (name and ext metas are fixed)
MetaByte == 999
EncodedMeta == [i \in 1..MetaLen |-> MetaByte]

\* FileSystem.readInode: [inode, err]
readInode(s, p) ==
    IF ~GroupOk(GetGroup(p)) THEN [inode |-> ZeroInode, err |-> "Bad group id"]
    ELSE [inode |-> s.inodes[p], err |-> ""]

\* FileSystem.isValidInode: "panic", "valid" or "invalid"
isValidInode(s, inodeptr) ==
    LET Bit(b) == IF b = "panic" THEN "panic" ELSE IF b = "set" THEN "valid" ELSE "invalid"
    IN  IF ~GroupOk(GetGroup(inodeptr)) THEN "invalid"
        ELSE Bit(CheckBit(s.ib[GetGroup(inodeptr)], GetGroup(inodeptr), inodeptr))

\* a freeInode that leaves the inode bit set
freeInodeKeepsBit(s, inodeptr) == [s |-> s, err |-> "", panic |-> FALSE]

\* FileSystem.freeInode: [s, err, panic]
freeInode(s, inodeptr) ==
    LET g == GetGroup(inodeptr)
        Cleared(r) ==
            [s |-> IF r.panic THEN s
                   ELSE syncInodeBit([s EXCEPT !.ib[g] = r.bm], g, GetIdx(inodeptr)),
             err |-> "", panic |-> r.panic]
    IN  IF ~GroupOk(g) THEN [s |-> s, err |-> "BAD_UID", panic |-> FALSE]
        ELSE Cleared(ClearBits(s.ib[g], g, <<inodeptr>>))

\* FileSystem.CreateFile with the clock reading t: [s, ok, p, node, off, uid, err, panic]
CreateFile(s, t) ==
    LET off0 == [offset |-> 0, blockIdx |-> 0, rem |-> 0]
        fail(st, u, e) == [s |-> st, ok |-> FALSE, p |-> 0, node |-> ZeroInode, off |-> off0,
                           uid |-> u, err |-> e, panic |-> FALSE]
        Written(w, ptr, inode, blk) ==
            LET node == [inode EXCEPT !.MetaSize = MetaLen, !.Blocks = 1, !.Direct[1] = blk]
            IN  IF w.panic THEN [fail(w.s, inode2Uid(ptr, inode), "") EXCEPT !.panic = TRUE]
                ELSE IF w.err # "" THEN fail(w.s, inode2Uid(ptr, inode), w.err)
                ELSE [s |-> syncInode(w.s, ptr, node), ok |-> TRUE, p |-> ptr, node |-> node,
                      off |-> [off0 EXCEPT !.rem = MetaLen], uid |-> inode2Uid(ptr, inode),
                      err |-> "", panic |-> FALSE]
        Allocated(ab, ptr, inode) ==
            IF ab.panic THEN [fail(ab.s, inode2Uid(ptr, inode), "") EXCEPT !.panic = TRUE]
            ELSE IF ab.err # "" THEN fail(ab.s, inode2Uid(ptr, inode), ab.err)
            ELSE Written(writeBlock(ab.s, ab.blk, EncodedMeta, 0), ptr, inode, ab.blk)
        Loaded(old, s1, ptr) ==
            IF old.err # "" THEN fail(s1, << >>, old.err)
            ELSE Allocated(allocOneBlock(s1), ptr,
                           [ZeroInode EXCEPT !.Seq = (old.inode.Seq + 1) % U32Mod, !.CTime = t])
        Found(ai) ==
            IF ai.err # "" THEN fail(ai.s, << >>, ai.err)
            ELSE Loaded(readInode(ai.s, ai.ptr), checkReady(ai.s, GetGroup(ai.ptr)), ai.ptr)
    IN  IF MetaLen >= BlockSize THEN fail(s, << >>, "File meta overlimit")
        ELSE Found(allocInode(s))

\* FileSystem.loadMeta + FileMeta.FromBytes: "panic", an error or "".  Bytes that
\* are not an encoded FileMeta decode or fail as their values decide (decodes).
loadMeta(s, node, decodes) ==
    LET Got(r) ==
            IF r.panic THEN "panic"
            ELSE IF r.err # "" THEN r.err
            ELSE IF r.data = EncodedMeta \/ decodes THEN ""
            ELSE "bad meta"
    IN  Got(readBlock(s, node.Direct[1], 0, node.MetaSize))

\* FileSystem.OpenFile from the outcome ri of its readInode on:
\* [ok, p, node, off, err, panic]
OpenLoaded(s, uid, ri, decodes) ==
    LET p == KeyInodeptr(uid)
        off0 == [offset |-> 0, blockIdx |-> 0, rem |-> 0]
        fail(e) == [ok |-> FALSE, p |-> 0, node |-> ZeroInode, off |-> off0, err |-> e,
                    panic |-> FALSE]
        Meta(m, inode) ==
            IF m = "panic" THEN [fail("") EXCEPT !.panic = TRUE]
            ELSE IF m # "" THEN fail(m)
            ELSE [ok |-> TRUE, p |-> p, node |-> inode,
                  off |-> [off0 EXCEPT !.rem = inode.MetaSize], err |-> "", panic |-> FALSE]
        Loaded(r) ==
            IF r.err # "" THEN fail("FNF")
            ELSE IF inode2Uid(p, r.inode) # uid THEN fail("FNF")
            ELSE IF r.inode.MetaSize > BlockSize THEN fail("Bad meta size")
            ELSE Meta(loadMeta(s, r.inode, decodes), r.inode)
    IN  Loaded(ri)

\* FileSystem.OpenFile: [ok, p, node, off, err, panic]
OpenFile(s, uid, decodes) == OpenLoaded(s, uid, readInode(s, KeyInodeptr(uid)), decodes)

\* the groups named by a list of block pointers
PtrGroups(ptrs) == {GetGroup(ptrs[i]) : i \in 1..Len(ptrs)}
PtrsOf(ptrs, g) == SelectSeq(ptrs, LAMBDA v : GetGroup(v) = g)

RECURSIVE SortPtrs(_)
\* sort.Slice(blockptrs, ...) by blockptrs[i] & 0x7fffffff (group and index)
SortPtrs(q) ==
    IF q = << >> THEN << >>
    ELSE LET i == CHOOSE k \in 1..Len(q) :
                      /\ \A j \in 1..Len(q) : q[k] % BigFlag <= q[j] % BigFlag
                      /\ \A j \in 1..(k - 1) : q[j] % BigFlag > q[k] % BigFlag
         IN  <<q[i]>> \o SortPtrs(SubSeq(q, 1, i - 1) \o SubSeq(q, i + 1, Len(q)))

RECURSIVE ReleaseGroups(_, _, _)
\* releaseDataBlock: ClearBits group by group
ReleaseGroups(s, ptrs, gs) ==
    LET g == Min(gs)
        Synced(y) ==
            IF y.panic THEN [s |-> y.s, err |-> "", panic |-> TRUE]
            ELSE ReleaseGroups(y.s, ptrs, gs \ {g})
        Cleared(r) ==
            IF r.panic THEN [s |-> s, err |-> "", panic |-> TRUE]
            ELSE Synced(WriteSegs([checkReady(s, g) EXCEPT !.bb[g] = r.bm], g,
                                  mergeSeg(PtrsOf(ptrs, g)).segs, 1))
    IN  IF gs = {} THEN [s |-> s, err |-> "", panic |-> FALSE]
        ELSE Cleared(ClearBits(s.bb[g], g, PtrsOf(ptrs, g)))

\* FileSystem.releaseDataBlock: [s, err, panic].  The groups are visited in map
\* order; when one of them is no group of the store the call fails with BAD_GID
\* after the groups of set first, which the iteration happened to visit before it.
releaseDataBlock(s, ptrs, first) ==
    LET gs == PtrGroups(ptrs)
        good == {g \in gs : GroupOk(g)}
        Bad(r) == IF r.panic THEN r ELSE [r EXCEPT !.err = "BAD_GID"]
    IN  IF gs = good THEN ReleaseGroups(s, SortPtrs(ptrs), gs)
        ELSE Bad(ReleaseGroups(s, SortPtrs(ptrs), good \cap first))

RECURSIVE releaseIndirectBlocks(_, _, _, _, _)
RECURSIVE ReleaseInnerLoop(_, _, _, _, _, _)
ReleaseInnerLoop(s, blockptrs, i, depth, blocks, first) ==
    LET Released(r) ==
            IF r.panic \/ r.err # "" THEN r
            ELSE ReleaseInnerLoop(r.s, blockptrs, i + 1, depth,
                                  blocks - pow(BlockPointers, depth - 1), first)
    IN  IF i > Len(blockptrs) THEN [s |-> s, err |-> "", panic |-> FALSE]
        ELSE Released(releaseIndirectBlocks(s, blockptrs[i], depth - 1, blocks, first))

\* FileSystem.releaseIndirectBlocks: [s, err, panic]
releaseIndirectBlocks(s, blockptr, depth, blocks, first) ==
    LET span == pow(BlockPointers, depth - 1)
        pos0 == IF depth = 1 THEN blocks ELSE (blocks + span - 1) \div span
        pos == IF pos0 >= BlockPointers THEN BlockPointers ELSE pos0
        Below(d) ==
            IF d.panic \/ d.err # "" THEN d
            ELSE releaseDataBlock(d.s, <<blockptr>>, first)
        Got(r) ==
            IF r.panic THEN [s |-> s, err |-> "", panic |-> TRUE]
            ELSE IF r.err # "" THEN [s |-> s, err |-> r.err, panic |-> FALSE]
            ELSE IF depth = 1 THEN Below(releaseDataBlock(s, r.ptrs, first))
            ELSE Below(ReleaseInnerLoop(s, r.ptrs, 1, depth, blocks, first))
    IN  IF blockptr = 0 THEN [s |-> s, err |-> "", panic |-> FALSE]
        ELSE IF pos < 0 THEN [s |-> s, err |-> "", panic |-> TRUE]
        ELSE Got(readPointer(s, blockptr, pos, 0))

RECURSIVE ReleaseDirect(_, _, _, _)
\* DeleteFile: the loop over the direct pointers
ReleaseDirect(s, inode, i, first) ==
    LET Released(r) ==
            IF r.panic \/ r.err # "" THEN r ELSE ReleaseDirect(r.s, inode, i + 1, first)
    IN  IF ~(i < DirectBlocks /\ i < inode.Blocks) THEN [s |-> s, err |-> "", panic |-> FALSE]
        ELSE IF inode.Direct[i + 1] = 0 THEN ReleaseDirect(s, inode, i + 1, first)
        ELSE Released(releaseDataBlock(s, <<inode.Direct[i + 1]>>, first))

\* FileSystem.DeleteFile: [s, err, panic]
DeleteFile(s, uid, first) ==
    LET p == KeyInodeptr(uid)
        fnf == [s |-> s, err |-> "FNF", panic |-> FALSE]
        \* the levels: r is the outcome so far, blocks the data blocks still to release
        AfterTriple(r) ==
            IF r.panic \/ r.err # "" THEN r
            ELSE freeInode(r.s, p)
        AfterDouble(r, inode, blocks) ==
            IF r.panic \/ r.err # "" THEN r
            ELSE IF inode.Triple > 0 /\ blocks > 0
            THEN AfterTriple(releaseIndirectBlocks(r.s, inode.Triple, 3, blocks, first))
            ELSE AfterTriple(r)
        AfterSingle(r, inode, blocks) ==
            LET n == pow(BlockPointers, 2)
                batch == IF blocks > n THEN n ELSE blocks
            IN  IF r.panic \/ r.err # "" THEN r
                ELSE IF inode.Double > 0 /\ blocks > 0
                THEN AfterDouble(releaseIndirectBlocks(r.s, inode.Double, 2, batch, first),
                                 inode, blocks - batch)
                ELSE AfterDouble(r, inode, blocks)
        AfterDirect(r, inode, blocks) ==
            LET n == pow(BlockPointers, 1)
                batch == IF blocks > n THEN n ELSE blocks
            IN  IF r.panic \/ r.err # "" THEN r
                ELSE IF inode.Single > 0 /\ blocks > 0
                THEN AfterSingle(releaseIndirectBlocks(r.s, inode.Single, 1, batch, first),
                                 inode, blocks - batch)
                ELSE AfterSingle(r, inode, blocks)
        Loaded(ri) ==
            IF ri.err # "" THEN fnf
            ELSE IF inode2Uid(p, ri.inode) # uid THEN fnf
            ELSE AfterDirect(ReleaseDirect(s, ri.inode, 0, first), ri.inode,
                             U32Sub(ri.inode.Blocks, DirectBlocks))
        Valid(valid) ==
            IF valid = "panic" THEN [s |-> s, err |-> "", panic |-> TRUE]
            ELSE IF valid = "invalid" THEN fnf
            ELSE Loaded(readInode(s, p))
    IN  Valid(isValidInode(s, p))

\* ---------------------------------------------------------------- the state machine
\* One client works on the store through one Vfile handle at a time, and on
\* one file at a time: it creates a file after it deleted the one before.
VARIABLES
    fs,        \* the store
    vf,        \* the handle: [open, Inodeptr, Inode, off]
    files,     \* the UIDs CreateFile returned, each with whether its file is live
    last,      \* the last call: [op, err, stop]; stop: it failed in a way the client
               \* does not go on after (any error but end-of-file at the end of
               \* the file and file-not-found)
    gh,        \* what the client knows about the file it created last
    aborted,   \* the process has aborted (a Go panic)
    unit       \* the component a specification exercises alone (none for the client)

vars == <<fs, vf, files, last, gh, aborted, unit>>

\* no component is exercised alone
NoUnit == [of |-> "none"]

NoOffset == [offset |-> 0, blockIdx |-> 0, rem |-> 0]
NoHandle == [open |-> FALSE, Inodeptr |-> 0, Inode |-> ZeroInode, off |-> NoOffset]
\* uid, live: the file; content: the bytes the client put into it (valid while cok);
\* pos: the byte position the client is at (valid while pok); fresh: the file was
\* made by CreateFile and non-empty Writes alone; sealed: the client has done
\* something else since its last Write; okw: no Write failed; solo: no other file
\* changed the store since the CreateFile; fb, fi: the free blocks and inodes
\* just before the CreateFile; wn, gen: Writes, and Writes after coming back
NoFile ==
    [uid |-> << >>, live |-> FALSE, content |-> << >>, pos |-> 0, pok |-> FALSE,
     cok |-> FALSE, fresh |-> FALSE, sealed |-> FALSE, okw |-> FALSE, solo |-> FALSE,
     fb |-> 0, fi |-> 0, wn |-> 0, gen |-> 0]

\* the UID the handle's in-memory inode stands for
HandleUid == inode2Uid(vf.Inodeptr, vf.Inode)
\* the client goes on
Running == ~aborted /\ ~last.stop
\* the handle is on the live file the client created last
Tracked == vf.open /\ gh.live /\ HandleUid = gh.uid
\* the handle is on a file the client has not deleted.  The client does not
\* work through the handle of a file it deleted, and it writes only to the
\* file it created last, at a position it knows.
HandleLive == vf.open /\ \E i \in 1..Len(files) : files[i].live /\ files[i].uid = HandleUid

\* the byte the client puts at byte position q of its f-th file; w tells the
\* writes that follow CreateFile (0) from those made after coming back (1, ...)
Stamp(f, w, q) == 1000 * f + 100 * w + q
Batch(f, w, q, n) == [i \in 1..n |-> Stamp(f, w, q + i - 1)]
\* the lengths of the buffers given to Write: short ones and one that fills a big run
BigWrite == WordBits * BlockSize
WriteLens == (1..MaxWrite) \cup {BigWrite}

\* the content after writing vals at byte position at (the file grows as needed)
PutBytes(content, at, vals) == WriteAt(content, at, vals)

Init ==
    /\ \E b \in BOOLEAN : fs = NewFileSystem(b)
    /\ vf = NoHandle
    /\ files = << >>
    /\ last = [op |-> "MakeFileSystem", err |-> "", stop |-> FALSE]
    /\ gh = NoFile
    /\ aborted = FALSE
    /\ unit = NoUnit

\* the client calls CreateFile
DoCreate(t) ==
    LET Created(r) ==
            /\ fs' = r.s
            /\ aborted' = r.panic
            /\ UNCHANGED unit
            /\ last' = [op |-> "CreateFile", err |-> r.err, stop |-> r.err # ""]
            /\ IF r.ok
               THEN /\ vf' = [open |-> TRUE, Inodeptr |-> r.p, Inode |-> r.node, off |-> r.off]
                    /\ files' = Append(files, [uid |-> r.uid, live |-> TRUE])
                    /\ gh' = [NoFile EXCEPT !.uid = r.uid, !.live = TRUE, !.pok = TRUE,
                                            !.cok = TRUE, !.fresh = TRUE, !.okw = TRUE,
                                            !.solo = TRUE, !.fb = StatBlocks(fs),
                                            !.fi = StatInodes(fs), !.wn = gh.wn,
                                            !.gen = gh.gen]
               ELSE /\ UNCHANGED <<vf, files>>
                    /\ gh' = [gh EXCEPT !.solo = FALSE]
    IN  Created(CreateFile(fs, t))

CreateStep(t) ==
    /\ Running
    /\ Len(files) < MaxCreates
    /\ \A i \in 1..Len(files) : ~files[i].live
    /\ DoCreate(t)

\* the client calls Write with a buffer of n bytes on the file it created last
DoWrite(n) ==
    LET gen == IF gh.sealed THEN gh.gen + 1 ELSE gh.gen
        data == Batch(Len(files), gen, gh.pos, n)
        g1 == [gh EXCEPT !.wn = @ + 1, !.gen = gen, !.sealed = FALSE]
        Wrote(r) ==
            LET good == ~r.panic /\ r.err = "" /\ r.tot = n
            IN  /\ fs' = r.s
                /\ aborted' = r.panic
                /\ vf' = [vf EXCEPT !.Inode = r.node, !.off = r.off]
                /\ last' = [op |-> "Write", err |-> r.err, stop |-> ~good]
                /\ UNCHANGED <<files, unit>>
                /\ gh' = IF good /\ gh.cok
                         THEN [g1 EXCEPT !.content = PutBytes(@, gh.pos, data),
                                         !.pos = @ + n,
                                         !.fresh = @ /\ ~gh.sealed /\ n > 0
                                                     /\ gh.pos = Len(gh.content)]
                         ELSE [g1 EXCEPT !.cok = FALSE, !.pok = FALSE, !.fresh = FALSE,
                                         !.content = << >>, !.pos = 0, !.okw = @ /\ good]
    IN  Wrote(Write(fs, vf.Inodeptr, vf.Inode, vf.off, data))

WriteStep(n) ==
    /\ Running
    /\ Tracked /\ gh.pok
    /\ gh.wn < MaxWrites
    /\ gh.sealed => gh.gen < MaxRewrites
    /\ gh.pos + n <= MaxFileBytes
    /\ DoWrite(n)

SeekStep(p) ==
    LET Sought(r) ==
            /\ aborted' = r.panic
            /\ vf' = [vf EXCEPT !.off = r.off]
            /\ last' = [op |-> "SeekPos", err |-> r.err, stop |-> r.err # ""]
            /\ UNCHANGED <<fs, files, unit>>
            /\ gh' = IF ~Tracked THEN [gh EXCEPT !.sealed = TRUE]
                     ELSE LET known == gh.cok /\ ~r.panic /\ r.err = "" /\ p <= Len(gh.content)
                          IN  [gh EXCEPT !.sealed = TRUE, !.pok = known,
                                         !.pos = IF known THEN p ELSE 0]
    IN  /\ Running
        /\ HandleLive
        /\ p <= vf.Inode.FileSize + 1
        /\ Sought(SeekPos(fs, vf.Inode, p))

ReadStep(k) ==
    LET atEnd == vf.off.offset >= vf.Inode.FileSize
        Got(r) ==
            LET good == ~r.panic /\ (r.err = "" \/ atEnd)
            IN  /\ fs' = r.s
                /\ aborted' = r.panic
                /\ vf' = [vf EXCEPT !.off = r.off]
                /\ last' = [op |-> "Read", err |-> r.err, stop |-> ~good]
                /\ UNCHANGED <<files, unit>>
                /\ gh' = IF ~Tracked THEN [gh EXCEPT !.sealed = TRUE]
                         ELSE LET known == gh.pok /\ good
                              IN  [gh EXCEPT !.sealed = TRUE, !.pok = known,
                                             !.pos = IF known THEN MinOf(@ + k, Len(gh.content))
                                                     ELSE 0]
    IN  /\ Running
        /\ HandleLive
        /\ Got(Read(fs, vf.Inode, vf.off, k))

OpenStep(i, decodes) ==
    LET Opened(r, uid) ==
            /\ aborted' = r.panic
            /\ last' = [op |-> "OpenFile", err |-> r.err, stop |-> r.err \notin {"", "FNF"}]
            /\ UNCHANGED <<fs, files, unit>>
            /\ IF r.ok
               THEN /\ vf' = [open |-> TRUE, Inodeptr |-> r.p, Inode |-> r.node, off |-> r.off]
                    /\ gh' = IF gh.live /\ uid = gh.uid
                             THEN [gh EXCEPT !.sealed = TRUE, !.pos = 0, !.pok = gh.cok]
                             ELSE [gh EXCEPT !.sealed = TRUE]
               ELSE UNCHANGED <<vf, gh>>
    IN  /\ Running
        /\ i \in 1..Len(files)
        /\ decodes \/ OpenFile(fs, files[i].uid, FALSE).err = "bad meta"
        /\ Opened(OpenFile(fs, files[i].uid, decodes), files[i].uid)

\* the client calls DeleteFile with the i-th UID it got
DoDelete(i, first) ==
    LET uid == files[i].uid
        Deleted(r) ==
            LET done == ~r.panic /\ r.err = ""
            IN  /\ fs' = r.s
                /\ aborted' = r.panic
                /\ UNCHANGED unit
                /\ last' = [op |-> "DeleteFile", err |-> r.err,
                            stop |-> r.err \notin {"", "FNF"}]
                /\ files' = IF done THEN [files EXCEPT ![i].live = FALSE] ELSE files
                /\ vf' = IF done /\ vf.open /\ HandleUid = uid THEN NoHandle ELSE vf
                /\ gh' = IF uid = gh.uid /\ gh.live
                         THEN IF done THEN [gh EXCEPT !.live = FALSE, !.content = << >>,
                                                      !.pos = 0, !.pok = FALSE, !.cok = FALSE,
                                                      !.sealed = TRUE]
                              ELSE [gh EXCEPT !.solo = FALSE]
                         ELSE IF r.s # fs THEN [gh EXCEPT !.solo = FALSE]
                         ELSE gh
    IN  Deleted(DeleteFile(fs, uid, first))

DeleteStep(i, first) ==
    /\ Running
    /\ i \in 1..Len(files)
    /\ DoDelete(i, first)

Next ==
    \/ \E t \in 0..MaxTime : CreateStep(t)
    \/ \E n \in WriteLens : WriteStep(n)
    \/ \E p \in 0..(MaxFileBytes + 1) : SeekStep(p)
    \/ \E k \in 1..MaxRead : ReadStep(k)
    \/ \E i \in 1..MaxCreates, d \in BOOLEAN : OpenStep(i, d)
    \/ \E i \in 1..MaxCreates, first \in {{}, Groups} : DeleteStep(i, first)

Spec == Init /\ [][Next]_vars

\* ---------------------------------------------------------------- an aged store
\* A second client only creates, fills and deletes files, several of them live
\* at a time, so that files are made on a store whose bitmaps have holes
\* behind the cursor.
AgedCreates == 3
AgedWrites == 3
\* the buffers of this client: two blocks, and four blocks
AgedLens == {2 * BlockSize, 4 * BlockSize}

AgedCreate(t) ==
    /\ Running
    /\ Len(files) < AgedCreates
    /\ DoCreate(t)

AgedWrite(n) ==
    /\ Running
    /\ Tracked /\ gh.pok /\ ~gh.sealed
    /\ gh.wn < AgedWrites
    /\ gh.pos + n <= MaxFileBytes
    /\ DoWrite(n)

AgedDelete(i, first) ==
    /\ Running
    /\ i \in 1..Len(files)
    /\ files[i].live
    /\ DoDelete(i, first)

NextAged ==
    \/ \E t \in 0..MaxTime : AgedCreate(t)
    \/ \E n \in AgedLens : AgedWrite(n)
    \/ \E i \in 1..AgedCreates, first \in {{}, Groups} : AgedDelete(i, first)

SpecAged == Init /\ [][NextAged]_vars

\* ---------------------------------------------------------------- readers
\* the batch limits a reader uses: short ones and one that takes a file at once
ReadLens == (1..MaxRead) \cup {MaxFileBytes}

RECURSIVE ReadFileLoop(_, _, _, _, _)
\* ReadFile (test_helper.go): for offset < FileSize { f.Read(data[:batchLimit]) ... }
ReadFileLoop(s, node, off, out, batchLimit) ==
    LET b == IF Len(out) + batchLimit > node.FileSize
             THEN node.FileSize - Len(out) ELSE batchLimit
        Got(r) ==
            IF r.panic THEN [out |-> out, off |-> off, err |-> "", panic |-> TRUE]
            ELSE IF r.err # "" THEN [out |-> out, off |-> r.off, err |-> r.err, panic |-> FALSE]
            ELSE IF r.rdn = 0
            THEN [out |-> out, off |-> r.off, err |-> "read nil", panic |-> FALSE]
            ELSE ReadFileLoop(r.s, node, r.off, out \o r.out, batchLimit)
    IN  IF ~(Len(out) < node.FileSize)
        THEN [out |-> out, off |-> off, err |-> "", panic |-> FALSE]
        ELSE Got(Read(s, node, off, b))

\* ReadFile(fs, key, consumer, batchLimit): [out: the bytes consumed, off, err, panic]
ReadFile(s, uid, batchLimit, decodes) ==
    LET Opened(o) ==
            IF ~o.ok THEN [out |-> << >>, off |-> o.off, err |-> o.err, panic |-> o.panic]
            ELSE ReadFileLoop(s, o.node, o.off, << >>, batchLimit)
    IN  Opened(OpenFile(s, uid, decodes))

\* checkFile (seek_write_test.go): OpenFile, SeekPos(0), one Read of n bytes
checkFile(s, uid, n, decodes) ==
    LET Got(r) == [out |-> r.out, err |-> r.err, panic |-> r.panic]
        Sought(k, node) ==
            IF k.panic THEN [out |-> << >>, err |-> "", panic |-> TRUE]
            ELSE Got(Read(s, node, k.off, n))
        Opened(o) ==
            IF ~o.ok THEN [out |-> << >>, err |-> o.err, panic |-> o.panic]
            ELSE Sought(SeekPos(s, o.node, 0), o.node)
    IN  Opened(OpenFile(s, uid, decodes))

\* the stored inode of the file the client created last
StoredInode == readInode(fs, KeyInodeptr(gh.uid)).inode

\* ---------------------------------------------------------------- C1
\* C1: a file made by CreateFile and successful non-empty Writes alone (any
\* sizes, any splitting, big allocation on or off), opened by its UID and read
\* sequentially with any batch limit, yields exactly file_size bytes, and they
\* are the concatenation of the written batches.
WriteReadRoundTrip ==
    (gh.live /\ gh.fresh /\ ~gh.sealed) =>
        \A b \in ReadLens, d \in BOOLEAN :
            LET r == ReadFile(fs, gh.uid, b, d)
            IN  /\ ~r.panic
                /\ r.err = ""
                /\ r.out = gh.content
                /\ Len(r.out) = StoredInode.FileSize

\* ---------------------------------------------------------------- C2
\* SeekPos(0) and one Read of file_size bytes on a handle
ReadAll(s, node) ==
    LET Sought(k) == Read(s, node, k.off, node.FileSize)
    IN  Sought(SeekPos(s, node, 0))

\* SeekPos(p) and one Read of k bytes on a handle: [seek, read]
SeekRead(s, node, p, k) ==
    LET Sought(a) == [seek |-> a, read |-> Read(s, node, a.off, k)]
    IN  Sought(SeekPos(s, node, p))

\* the part [from, to) of seq that exists
Cut(seq, from, to) == Slice(seq, MinOf(from, Len(seq)), MinOf(to, Len(seq)))

\* C2: on every handle of a live file, for every p in 0..file_size and every k,
\* SeekPos(p) and Read of k bytes succeed and return the slice
\* [p, min(p + k, file_size)) of what reading the whole file from 0 returns.
SeekThenReadIsSlice ==
    (Running /\ HandleLive) =>
        LET Whole(all) ==
                \A p \in 0..vf.Inode.FileSize, k \in 1..MaxRead :
                    LET Both(r) ==
                            /\ ~r.seek.panic /\ r.seek.err = ""
                            /\ ~r.read.panic
                            /\ r.read.out = Cut(all, p, MinOf(p + k, vf.Inode.FileSize))
                    IN  Both(SeekRead(fs, vf.Inode, p, k))
        IN  Whole(ReadAll(fs, vf.Inode).out)

\* ---------------------------------------------------------------- C3
\* C3: when DeleteFile succeeds on a file that CreateFile made and only
\* successful Writes (appends, and overwrites after SeekPos) changed, while no
\* other file changed the store, the free-block and the free-inode totals are
\* what they were just before the CreateFile.
DeleteRestoresCounts ==
    (last.op = "DeleteFile" /\ last.err = "" /\ ~aborted
        /\ gh.uid # << >> /\ ~gh.live /\ gh.okw /\ gh.solo) =>
        /\ StatBlocks(fs) = gh.fb
        /\ StatInodes(fs) = gh.fi

\* ---------------------------------------------------------------- C4
\* C4: when the client holds content A, SeekPos(p) with p <= Len(A) succeeds
\* and the next call, Write of B (m bytes), succeeds, reading the whole file
\* (ReadFile with any batch limit, and checkFile's single Read) yields
\* A[0..p) B A[p+m..n) without an error.
SeekRewrite ==
    [][(last.op = "SeekPos" /\ last.err = "" /\ Tracked /\ gh.pok /\ gh.cok
            /\ last'.op = "Write" /\ ~last'.stop) =>
        LET p == gh.pos
            m == gh'.pos - gh.pos
            A == gh.content
            B == Batch(Len(files), gh'.gen, p, m)
            expected == Cut(A, 0, p) \o B \o Cut(A, p + m, Len(A))
            Same(r) == ~r.panic /\ r.err = "" /\ r.out = expected
        IN  \A d \in BOOLEAN :
                /\ Same(checkFile(fs', gh.uid, Len(expected), d))
                /\ \A b \in ReadLens : Same(ReadFile(fs', gh.uid, b, d))]_vars

\* ---------------------------------------------------------------- C5
\* C5: a successful Write of m bytes at byte_offset o leaves file_size at
\* max(old file_size, o + m), in the handle's inode and in the stored one.
WriteSetsFileSize ==
    [][(Tracked /\ gh.pok /\ gh.cok /\ last'.op = "Write" /\ ~last'.stop) =>
        LET o == vf.off.offset
            m == gh'.pos - gh.pos
            size == MaxOf(vf.Inode.FileSize, o + m)
        IN  /\ vf'.Inode.FileSize = size
            /\ readInode(fs', vf.Inodeptr).inode.FileSize = size]_vars

\* ---------------------------------------------------------------- C6
\* C6: once DeleteFile(uid) succeeded, OpenFile(uid) and DeleteFile(uid) fail
\* with file-not-found, before and after the slot is reused; and the two calls
\* accept the same UIDs.
DeletedUidIsRejected ==
    ~aborted =>
        \A i \in 1..Len(files) :
            /\ ~files[i].live =>
                /\ \A d \in BOOLEAN : OpenFile(fs, files[i].uid, d).err = "FNF"
                /\ \A first \in {{}, Groups} : DeleteFile(fs, files[i].uid, first).err = "FNF"
            /\ (OpenFile(fs, files[i].uid, TRUE).err = "FNF")
                   <=> (DeleteFile(fs, files[i].uid, Groups).err = "FNF")

\* ---------------------------------------------------------------- C7
\* C7: the UIDs CreateFile returned are pairwise different; a later UID of the
\* same inode address carries a greater seq, the next one the seq plus one; and
\* the earlier UID neither opens nor deletes anything once the slot is reused.
UidsUniqueAcrossReuse ==
    \A i, j \in 1..Len(files) :
        (i < j) =>
            /\ files[i].uid # files[j].uid
            /\ (KeyInodeptr(files[i].uid) = KeyInodeptr(files[j].uid)) =>
                /\ files[j].uid[3] > files[i].uid[3]
                /\ (\A k \in (i + 1)..(j - 1) :
                        KeyInodeptr(files[k].uid) # KeyInodeptr(files[i].uid))
                    => files[j].uid[3] = files[i].uid[3] + 1
                /\ ~aborted =>
                    /\ \A d \in BOOLEAN : ~OpenFile(fs, files[i].uid, d).ok
                    /\ \A first \in {{}, Groups} :
                           LET Same(r) == r.err = "FNF" /\ r.s = fs
                           IN  Same(DeleteFile(fs, files[i].uid, first))

\* the slot of a deleted file holds a live second file, and the first UID was
\* just refused by OpenFile
UidsUniqueAcrossReuseWitness ==
    /\ Len(files) = 2
    /\ KeyInodeptr(files[1].uid) = KeyInodeptr(files[2].uid)
    /\ files[2].uid[3] = files[1].uid[3] + 1
    /\ files[2].live
    /\ last.op = "OpenFile" /\ last.err = "FNF"

\* ---------------------------------------------------------------- C8
\* C8: on every handle of a live file, SeekPos(p) with p > file_size returns
\* without error and without aborting, and leaves the triple SeekPos(file_size)
\* leaves, whose byte_offset is file_size.
SeekPosClamps ==
    (Running /\ HandleLive) =>
        \A p \in (vf.Inode.FileSize + 1)..(vf.Inode.FileSize + 2) :
            LET Both(a, e) ==
                    /\ ~a.panic /\ a.err = ""
                    /\ a.off = e.off
                    /\ a.off.offset = vf.Inode.FileSize
            IN  Both(SeekPos(fs, vf.Inode, p), SeekPos(fs, vf.Inode, vf.Inode.FileSize))

\* ---------------------------------------------------------------- C9
\* C9: on every handle of a live file, Read into a buffer of k bytes returns
\* nothing, end-of-file and the triple unchanged when byte_offset >= file_size,
\* and exactly min(k, file_size - byte_offset) bytes, byte_offset advanced by
\* as many, otherwise.
ReadStaysInFile ==
    (Running /\ HandleLive) =>
        \A k \in 1..MaxRead :
            LET o == vf.off.offset
                size == vf.Inode.FileSize
                Got(r) ==
                    IF o >= size
                    THEN /\ ~r.panic /\ r.err = "EOF"
                         /\ r.rdn = 0 /\ r.out = << >>
                         /\ r.off = vf.off
                    ELSE /\ ~r.panic /\ r.err = ""
                         /\ r.rdn = MinOf(k, size - o) /\ Len(r.out) = r.rdn
                         /\ r.off.offset = o + r.rdn
            IN  Got(Read(fs, vf.Inode, vf.off, k))

\* ---------------------------------------------------------------- C10
RECURSIVE SeqRead(_, _, _, _, _, _)
\* Reads of b1, b2, b1, ... bytes (the last one shorter) until todo bytes are
\* read: [off, err, panic]
SeqRead(s, node, off, todo, b1, b2) ==
    LET Got(r) ==
            IF r.panic \/ r.err # "" THEN [off |-> r.off, err |-> r.err, panic |-> r.panic]
            ELSE IF r.rdn = 0 THEN [off |-> r.off, err |-> "read nil", panic |-> FALSE]
            ELSE SeqRead(r.s, node, r.off, todo - r.rdn, b2, b1)
    IN  IF todo <= 0 THEN [off |-> off, err |-> "", panic |-> FALSE]
        ELSE Got(Read(s, node, off, MinOf(b1, todo)))

\* C10: for every live file and p <= file_size, OpenFile and sequential Reads
\* of p bytes in batches leave the triple SeekPos(p) leaves; where all blocks
\* are single, a p on a block boundary gives the next block and rem 0.
PositionIsPathIndependent ==
    (Running /\ HandleLive) =>
        LET Opened(o) ==
                /\ o.ok
                /\ \A p \in 0..o.node.FileSize :
                    LET Sought(k) ==
                            /\ ~k.panic /\ k.err = ""
                            /\ k.off.offset = p
                            /\ (~fs.big /\ (o.node.MetaSize + p) % BlockSize = 0) =>
                                   /\ k.off.rem = 0
                                   /\ k.off.blockIdx = (o.node.MetaSize + p) \div BlockSize
                            /\ \A b1, b2 \in 1..MaxRead :
                                   LET Same(r) == ~r.panic /\ r.err = "" /\ r.off = k.off
                                   IN  Same(SeqRead(fs, o.node, o.off, p, b1, b2))
                    IN  Sought(SeekPos(fs, o.node, p))
        IN  Opened(OpenFile(fs, HandleUid, TRUE))

\* ---------------------------------------------------------------- core/fs.go: FileMeta
\* core/fs.go FileMetaAlign (16), scaled
FileMetaAlign == 4
\* core/fs.go MaxFileMetaSize (2048), scaled
MaxFileMetaSize == 8
\* cells of one length field of the encoding (int32, 4 bytes), scaled
LenField == 1
\* the block size CreateFile compares the encoded length with (8192), at the
\* scale of FileMetaAlign and MaxFileMetaSize
MetaBlockSize == 16

\* FileMeta.ToBytes: len(name) | name | len(ext) | ext | zero padding to FileMetaAlign
ToBytes(name, ext) ==
    LET Padded(body, padding) ==
            IF padding # FileMetaAlign THEN body \o Zeros(padding) ELSE body
        Encoded(body) == Padded(body, FileMetaAlign - (Len(body) % FileMetaAlign))
    IN  Encoded(<<Len(name)>> \o name \o <<Len(ext)>> \o ext)

\* bytes.Reader.Read into a fresh buffer of n cells from position at of data:
\* what is left is copied, the rest of the buffer stays zero
FillFrom(data, at, n) == [i \in 1..n |-> IF at + i <= Len(data) THEN data[at + i] ELSE 0]

\* FileMeta.FromBytes: [err, Name, ExtMetas]
FromBytes(data) ==
    LET meta(e, name, ext) == [err |-> e, Name |-> name, ExtMetas |-> ext]
        Ext(name, at, extLen) ==
            IF extLen > 0 /\ at >= Len(data) THEN meta("EOF", name, Zeros(extLen))
            ELSE meta("", name, IF extLen > 0 THEN FillFrom(data, at, extLen) ELSE << >>)
        Named(name, at) ==
            IF Len(data) - at < LenField THEN meta("EOF", name, << >>)
            ELSE Ext(name, at + LenField, data[at + 1])
        Name(nameLen) ==
            IF nameLen >= MaxFileMetaSize THEN meta("Bad File name len", << >>, << >>)
            ELSE IF nameLen > 0 /\ LenField >= Len(data) THEN meta("EOF", << >>, << >>)
            ELSE Named(IF nameLen > 0 THEN FillFrom(data, LenField, nameLen) ELSE << >>,
                       MinOf(Len(data), LenField + nameLen))
    IN  IF Len(data) < LenField THEN meta("EOF", << >>, << >>)
        ELSE Name(data[1])

\* CreateFile, before anything is allocated: the two limit checks
MetaLimit(name, meta) ==
    IF Len(meta) > MaxFileMetaSize THEN "meta overlimit"
    ELSE IF Len(ToBytes(name, meta)) >= MetaBlockSize THEN "File meta overlimit"
    ELSE ""

\* CreateFile that takes an inode and a block before it looks at the metadata
CreateFileChecksLate(s, name, meta, t) ==
    LET Made(r) ==
            IF MetaLimit(name, meta) = "" THEN r
            ELSE [r EXCEPT !.ok = FALSE, !.uid = << >>, !.err = MetaLimit(name, meta)]
    IN  Made(CreateFile(s, t))

\* FileSystem.CreateFile(name, meta) with the clock reading t: the limit checks,
\* then the allocation and the write of the encoded metadata
CreateFileNamed(s, name, meta, t) ==
    IF MetaLimit(name, meta) # ""
    THEN [s |-> s, ok |-> FALSE, p |-> 0, node |-> ZeroInode, off |-> NoOffset,
          uid |-> << >>, err |-> MetaLimit(name, meta), panic |-> FALSE]
    ELSE CreateFile(s, t)

\* ---------------------------------------------------------------- metadata alone
\* CreateFile(name, meta) on a new store, then OpenFile of the UID.
\* unit = [of, step, name, ext: the pair given; enc: the encoded metadata;
\*         uid, err: what CreateFile returned; fb, fi: the free totals before it;
\*         got: what OpenFile returned, [err, Name, ExtMetas]]
\* largest name and largest ext-meta given
MaxName == 12
MaxExt == 10
\* the cell values the name and the ext-meta are filled with
MetaFills == {0, 7}

MetaInit ==
    /\ \E b \in BOOLEAN : fs = NewFileSystem(b)
    /\ vf = NoHandle
    /\ files = << >>
    /\ last = [op |-> "MakeFileSystem", err |-> "", stop |-> FALSE]
    /\ gh = NoFile
    /\ aborted = FALSE
    /\ \E n \in 0..MaxName, e \in 0..MaxExt, a \in MetaFills, b \in MetaFills :
           unit = [of |-> "FileMeta", step |-> "given",
                   name |-> [i \in 1..n |-> a], ext |-> [i \in 1..e |-> b],
                   enc |-> << >>, uid |-> << >>, err |-> "", fb |-> 0, fi |-> 0,
                   got |-> [err |-> "", Name |-> << >>, ExtMetas |-> << >>]]

MetaCreate(t) ==
    LET Created(r) ==
            /\ fs' = r.s
            /\ aborted' = r.panic
            /\ last' = [op |-> "CreateFile", err |-> r.err, stop |-> r.err # ""]
            /\ unit' = [unit EXCEPT !.step = "created", !.uid = r.uid, !.err = r.err,
                                    !.enc = IF r.ok THEN ToBytes(unit.name, unit.ext) ELSE << >>,
                                    !.fb = StatBlocks(fs), !.fi = StatInodes(fs)]
            /\ UNCHANGED <<vf, files, gh>>
    IN  /\ unit.of = "FileMeta" /\ unit.step = "given"
        /\ Created(CreateFileNamed(fs, unit.name, unit.ext, t))

\* OpenFile of the UID: loadMeta reads MetaSize bytes of block 0 and decodes them
MetaOpen ==
    LET Opened(r, m) ==
            /\ aborted' = r.panic
            /\ last' = [op |-> "OpenFile", err |-> IF r.ok THEN m.err ELSE r.err,
                        stop |-> ~r.ok \/ m.err # ""]
            /\ unit' = [unit EXCEPT !.step = "opened",
                                    !.got = IF r.ok THEN m ELSE [m EXCEPT !.err = r.err]]
            /\ UNCHANGED <<fs, vf, files, gh>>
        Decoded(m) == Opened(OpenFile(fs, unit.uid, m.err = ""), m)
    IN  /\ unit.of = "FileMeta" /\ unit.step = "created" /\ unit.err = "" /\ ~aborted
        /\ Decoded(FromBytes(unit.enc))

NextMeta ==
    \/ \E t \in 0..MaxTime : MetaCreate(t)
    \/ MetaOpen

SpecMeta == MetaInit /\ [][NextMeta]_vars

\* ---------------------------------------------------------------- C11
\* C11: for every (name, ext-meta) pair that CreateFile accepts, the encoded
\* metadata length is a multiple of FileMetaAlign and at most MaxFileMetaSize,
\* and OpenFile on the returned UID succeeds and yields the same name and the
\* same ext-meta bytes.
MetaRoundTrip ==
    (unit.of = "FileMeta" /\ unit.step # "given" /\ unit.err = "" /\ ~aborted) =>
        /\ Len(unit.enc) % FileMetaAlign = 0
        /\ Len(unit.enc) <= MaxFileMetaSize
        /\ (unit.step = "opened") =>
               /\ unit.got.err = ""
               /\ unit.got.Name = unit.name
               /\ unit.got.ExtMetas = unit.ext

\* ---------------------------------------------------------------- C17
\* C17: CreateFile rejects an ext-meta longer than MaxFileMetaSize and metadata
\* whose encoded length is greater than or equal to the block size, and on
\* that rejection no inode bit and no block bit is set: the bitmaps and the
\* free inode and free block counts are unchanged.
MetaOverlimitRejected ==
    [][(unit.of = "FileMeta" /\ unit.step = "given" /\ unit'.step = "created") =>
        LET over == \/ Len(unit.ext) > MaxFileMetaSize
                    \/ Len(ToBytes(unit.name, unit.ext)) >= MetaBlockSize
        IN  /\ over <=> (unit'.err \in {"meta overlimit", "File meta overlimit"})
            /\ over =>
                   /\ unit'.err # "" /\ unit'.uid = << >>
                   /\ fs'.ib = fs.ib /\ fs'.bb = fs.bb
                   /\ StatInodes(fs') = StatInodes(fs)
                   /\ StatBlocks(fs') = StatBlocks(fs)]_vars

\* CreateFile has refused metadata whose encoded length is exactly the block size
MetaOverlimitRejectedWitness ==
    /\ unit.of = "FileMeta" /\ unit.step = "created"
    /\ unit.err = "File meta overlimit"
    /\ Len(unit.ext) <= MaxFileMetaSize
    /\ Len(ToBytes(unit.name, unit.ext)) = MetaBlockSize

\* ---------------------------------------------------------------- C12
\* C12: a successful CreateFile consumes exactly one inode and exactly one data
\* block, and a Write of k bytes that follows it with meta_size + k <=
\* block_size allocates no further block: the used blocks are one more than
\* before the CreateFile.
MetaSharesBlockZero ==
    [][/\ (last'.op = "CreateFile" /\ last'.err = "" /\ ~aborted') =>
              /\ StatInodes(fs') = StatInodes(fs) - 1
              /\ StatBlocks(fs') = StatBlocks(fs) - 1
       /\ (last.op = "CreateFile" /\ last.err = "" /\ Tracked
              /\ last'.op = "Write" /\ ~last'.stop
              /\ vf.Inode.MetaSize + (gh'.pos - gh.pos) <= BlockSize) =>
              /\ StatBlocks(fs') = StatBlocks(fs)
              /\ StatBlocks(fs') = gh.fb - 1
              /\ StatInodes(fs') = gh.fi - 1]_vars

\* the Write after CreateFile has filled block 0 to its end
MetaSharesBlockZeroWitness ==
    /\ last.op = "Write" /\ ~last.stop
    /\ gh.live /\ gh.fresh /\ ~gh.sealed
    /\ vf.Inode.MetaSize + Len(gh.content) = BlockSize
    /\ vf.Inode.Blocks = 1
    /\ StatBlocks(fs) = gh.fb - 1

\* ---------------------------------------------------------------- bitmap.go alone
\* One Bitmap64 driven directly: Init on a byte array, then AllocBits calls and
\* ClearBits calls on addresses AllocBits returned and that are still held.
MaxBmCalls == 3
BmBits == 3 * WordBits
BmGroup == 1
\* the bits set in the byte array handed to Init
BmSeedBits == {0, 2, 5, 9}

\* Bitmap64.Init: lastPos 0, freeBits counted from the data
InitBitmap(data, nbits) ==
    [bits |-> data, n |-> nbits \div WordBits,
     freeBits |-> nbits - Cardinality(data), lastPos |-> 0]

\* Bitmap64.TotalBits
TotalBits(bm) == bm.n * WordBits

RECURSIVE SortedSeq(_)
\* the addresses of a set as the slice handed to ClearBits
SortedSeq(S) == IF S = {} THEN << >> ELSE <<Min(S)>> \o SortedSeq(S \ {Min(S)})

SeqSet(q) == {q[i] : i \in 1..Len(q)}

BitmapInit ==
    /\ fs = NewFileSystem(TRUE)
    /\ vf = NoHandle
    /\ files = << >>
    /\ last = [op |-> "Init", err |-> "", stop |-> FALSE]
    /\ gh = NoFile
    /\ aborted = FALSE
    /\ \E data \in SUBSET BmSeedBits :
           unit = [of |-> "Bitmap64", bm |-> InitBitmap(data, BmBits), held |-> {},
                   calls |-> 0, lst |-> << >>, cnt |-> 0, was |-> BmBits - Cardinality(data),
                   old |-> InitBitmap(data, BmBits), need |-> 0, hlimit |-> 0, big |-> FALSE]

BitmapAlloc(numBits, hlimit, bigAlloc) ==
    LET Got(r) ==
            /\ unit' = [unit EXCEPT !.bm = r.bm, !.held = @ \cup SeqSet(r.lst),
                                    !.calls = @ + 1, !.lst = r.lst, !.cnt = r.cnt,
                                    !.was = unit.bm.freeBits, !.old = unit.bm,
                                    !.need = numBits, !.hlimit = hlimit, !.big = bigAlloc]
            /\ last' = [op |-> "AllocBits", err |-> "", stop |-> FALSE]
            /\ UNCHANGED <<fs, vf, files, gh, aborted>>
    IN  /\ unit.of = "Bitmap64" /\ unit.calls < MaxBmCalls /\ ~aborted
        /\ Got(AllocBits(unit.bm, BmGroup, numBits, hlimit, bigAlloc))

BitmapClear(ptrs) ==
    LET Got(r) ==
            /\ unit' = [unit EXCEPT !.bm = r.bm, !.held = @ \ ptrs,
                                    !.calls = @ + 1, !.lst = SortedSeq(ptrs), !.cnt = 0,
                                    !.was = unit.bm.freeBits, !.old = unit.bm]
            /\ aborted' = r.panic
            /\ last' = [op |-> "ClearBits", err |-> "", stop |-> r.panic]
            /\ UNCHANGED <<fs, vf, files, gh>>
    IN  /\ unit.of = "Bitmap64" /\ unit.calls < MaxBmCalls /\ ~aborted
        /\ ptrs # {}
        /\ Got(ClearBits(unit.bm, BmGroup, SortedSeq(ptrs)))

NextBitmap ==
    \/ \E n \in {0, 1, WordBits, WordBits + 1, 2 * WordBits}, h \in {2, 2 * WordBits},
          b \in BOOLEAN :
           BitmapAlloc(n, h, b)
    \/ \E ptrs \in SUBSET unit.held : BitmapClear(ptrs)

SpecBitmap == BitmapInit /\ [][NextBitmap]_vars

\* ---------------------------------------------------------------- C13
\* C13: after every AllocBits call and every ClearBits call on one bitmap
\* (ClearBits given addresses that are currently allocated, single or big), the
\* call did not abort and total_bits = free_bits + popcount(bitmap bytes).
BitmapCounter ==
    unit.of = "Bitmap64" =>
        /\ ~aborted
        /\ TotalBits(unit.bm) = unit.bm.freeBits + Cardinality(unit.bm.bits)

BitmapCounterWitness ==
    /\ unit.of = "Bitmap64"
    /\ last.op = "ClearBits"
    /\ \E p \in SeqSet(unit.lst) : GetBig(p) > 0
    /\ \E p \in SeqSet(unit.lst) : GetBig(p) = 0
    /\ unit.held # {}
    /\ unit.bm.lastPos > 0
    /\ unit.bm.freeBits = unit.was + WordBits + 1

\* ---------------------------------------------------------------- bitmap.go (BitmapBase)
\* A BitmapBase is [bits: the set of indexes of the set bits, n: number of bytes,
\*                  freeBits, lastPos: a byte index].
RunBytes == WordBits \div ByteBits

\* BitmapBase.Init
InitBase(data, nbits) ==
    [bits |-> data, n |-> nbits \div ByteBits,
     freeBits |-> nbits - Cardinality(data), lastPos |-> 0]

\* bits.TrailingZeros8(^b.bits[pos])
ByteTrailingFree(bm, pos) ==
    LET fr == {o \in 0..(ByteBits - 1) : (pos * ByteBits + o) \notin bm.bits}
    IN  IF fr = {} THEN ByteBits ELSE Min(fr)

\* the bits of byte i from offset lo up to offset hi
ByteRange(i, lo, hi) == {i * ByteBits + o : o \in lo..hi}

\* the first loop of trySet64Bits without its i == 8 case
trySet64BitsNoTail(bm, pos, of) ==
    IF pos + RunBytes >= bm.n THEN [ok |-> FALSE, bm |-> bm]
    ELSE IF \/ ByteRange(pos, of, ByteBits - 1) \cap bm.bits # {}
            \/ \E i \in 1..(RunBytes - 1) : ByteRange(pos + i, 0, ByteBits - 1) \cap bm.bits # {}
    THEN [ok |-> FALSE, bm |-> bm]
    ELSE [ok |-> TRUE,
          bm |-> [bm EXCEPT !.bits = @ \cup ByteRange(pos, of, ByteBits - 1)
                      \cup UNION {ByteRange(pos + i, 0, ByteBits - 1) : i \in 1..(RunBytes - 1)}
                      \cup ByteRange(pos + RunBytes, 0, of - 1)]]

\* BitmapBase.trySet64Bits: [ok, bm]
trySet64Bits(bm, pos, of) ==
    IF pos + RunBytes >= bm.n THEN [ok |-> FALSE, bm |-> bm]
    ELSE IF \/ ByteRange(pos, of, ByteBits - 1) \cap bm.bits # {}
            \/ \E i \in 1..(RunBytes - 1) : ByteRange(pos + i, 0, ByteBits - 1) \cap bm.bits # {}
            \/ ByteRange(pos + RunBytes, 0, of - 1) \cap bm.bits # {}
    THEN [ok |-> FALSE, bm |-> bm]
    ELSE [ok |-> TRUE,
          bm |-> [bm EXCEPT !.bits = @ \cup ByteRange(pos, of, ByteBits - 1)
                      \cup UNION {ByteRange(pos + i, 0, ByteBits - 1) : i \in 1..(RunBytes - 1)}
                      \cup ByteRange(pos + RunBytes, 0, of - 1)]]

RECURSIVE BaseAllocScan(_, _, _, _, _, _, _, _)
\* the for-loop of BitmapBase.AllocBits from byte pos on; ret is TRUE when the
\* loop returned from inside
BaseAllocScan(bm, pos, lst, cnt, gid, numBits, hlimit, bigAlloc) ==
    IF pos >= bm.n
    THEN [bm |-> bm, lst |-> lst, cnt |-> cnt, ret |-> FALSE]
    ELSE LET b1 == [bm EXCEPT !.lastPos = pos]
             of == ByteTrailingFree(b1, pos)
             t == IF bigAlloc /\ numBits - cnt >= WordBits
                  THEN trySet64Bits(b1, pos, of) ELSE [ok |-> FALSE, bm |-> b1]
         IN  IF of = ByteBits
             THEN BaseAllocScan(b1, pos + 1, lst, cnt, gid, numBits, hlimit, bigAlloc)
             ELSE IF t.ok
             THEN LET b2 == [t.bm EXCEPT !.freeBits = @ - WordBits]
                      l2 == Append(lst, MakeEntAddr(pos * ByteBits + of, gid, TRUE))
                      c2 == cnt + WordBits
                  IN  IF c2 >= numBits \/ Len(l2) >= hlimit
                      THEN [bm |-> b2, lst |-> l2, cnt |-> c2, ret |-> TRUE]
                      ELSE BaseAllocScan(b2, pos + 1, l2, c2, gid, numBits, hlimit, bigAlloc)
             ELSE LET bit == pos * ByteBits + of
                      b2 == [b1 EXCEPT !.bits = @ \cup {bit}, !.freeBits = @ - 1]
                      l2 == Append(lst, MakeEntAddr(bit, gid, FALSE))
                      c2 == cnt + 1
                  IN  IF c2 >= numBits \/ Len(l2) >= hlimit
                      THEN [bm |-> b2, lst |-> l2, cnt |-> c2, ret |-> TRUE]
                      ELSE BaseAllocScan(b2, pos, l2, c2, gid, numBits, hlimit, bigAlloc)

\* BitmapBase.AllocBits: scan from lastPos, then once more from 0
BaseAllocBits(bm, gid, numBits, hlimit, bigAlloc) ==
    LET bpos == bm.lastPos
        Wrapped(r, r2) == [bm |-> r2.bm, lst |-> r.lst \o r2.lst, cnt |-> r.cnt + r2.cnt]
        Scanned(r) ==
            IF r.ret THEN [bm |-> r.bm, lst |-> r.lst, cnt |-> r.cnt]
            ELSE IF bpos # 0 /\ r.bm.freeBits > 0
            THEN Wrapped(r, BaseAllocScan([r.bm EXCEPT !.lastPos = 0], 0, <<>>, 0, gid,
                                          numBits - r.cnt, hlimit, bigAlloc))
            ELSE [bm |-> r.bm, lst |-> r.lst, cnt |-> r.cnt]
    IN  Scanned(BaseAllocScan(bm, bpos, <<>>, 0, gid, numBits, hlimit, bigAlloc))

\* ---------------------------------------------------------------- the two bitmaps side by side
\* One byte array, copied, handed to BitmapBase.Init and to Bitmap64.Init; one
\* AllocBits call with the same request on each.
AgreeInit ==
    /\ fs = NewFileSystem(TRUE)
    /\ vf = NoHandle
    /\ files = << >>
    /\ last = [op |-> "Init", err |-> "", stop |-> FALSE]
    /\ gh = NoFile
    /\ aborted = FALSE
    /\ \E data \in SUBSET (0..(BmBits - 1)) :
           unit = [of |-> "Bitmaps", step |-> "given", data |-> data,
                   bm1 |-> InitBase(data, BmBits), bm2 |-> InitBitmap(data, BmBits),
                   lst1 |-> << >>, lst2 |-> << >>, n1 |-> 0, n2 |-> 0, big |-> FALSE]

AgreeAlloc(numBits, hlimit, bigAlloc) ==
    LET Got(r1, r2) ==
            /\ unit' = [unit EXCEPT !.step = "allocated", !.bm1 = r1.bm, !.bm2 = r2.bm,
                                    !.lst1 = r1.lst, !.lst2 = r2.lst,
                                    !.n1 = r1.cnt, !.n2 = r2.cnt, !.big = bigAlloc]
            /\ last' = [op |-> "AllocBits", err |-> "", stop |-> FALSE]
            /\ UNCHANGED <<fs, vf, files, gh, aborted>>
    IN  /\ unit.of = "Bitmaps" /\ unit.step = "given"
        /\ Got(BaseAllocBits(unit.bm1, BmGroup, numBits, hlimit, bigAlloc),
               AllocBits(unit.bm2, BmGroup, numBits, hlimit, bigAlloc))

NextAgree ==
    \E n \in {0, 1, 2, WordBits - 1, WordBits, WordBits + 1, 2 * WordBits, 2 * WordBits + 1},
       h \in {0, 1, 2, 3 * WordBits}, b \in BOOLEAN : AgreeAlloc(n, h, b)

SpecAgree == AgreeInit /\ [][NextAgree]_vars

\* ---------------------------------------------------------------- C14
\* C14: for any initial bitmap contents and any request (n_wanted, handle_limit,
\* big allowed), the first AllocBits call after Init on BitmapBase and on
\* Bitmap64 returns the identical address sequence and leaves bit-identical
\* bitmap bytes.
AllocatorsAgree ==
    (unit.of = "Bitmaps" /\ unit.step = "allocated") =>
        /\ unit.lst1 = unit.lst2
        /\ unit.bm1.bits = unit.bm2.bits

AllocatorsAgreeWitness ==
    /\ unit.of = "Bitmaps" /\ unit.step = "allocated"
    /\ Len(unit.lst2) = 3
    /\ GetBig(unit.lst2[1]) = 0
    /\ GetBig(unit.lst2[2]) > 0 /\ GetIdx(unit.lst2[2]) % WordBits = WordBits - 1
    /\ GetBig(unit.lst2[3]) = 0
    /\ unit.data # {}
    /\ unit.lst1 = unit.lst2

\* ---------------------------------------------------------------- allocBlocks alone
\* The store driven as alloc_test.go drives it: allocBlocks calls on the
\* FileSystem, and releaseDataBlock on blocks it handed out, so that the block
\* bitmaps carry holes behind their cursors.
MaxAllocCalls == 3

RECURSIVE EveryNth(_, _, _)
\* the elements k, k + m, k + 2m, ... of a list
EveryNth(q, k, m) ==
    IF k > Len(q) THEN << >> ELSE <<q[k]>> \o EveryNth(q, k + m, m)

AllocInit ==
    /\ \E b \in BOOLEAN : fs = NewFileSystem(b)
    /\ vf = NoHandle
    /\ files = << >>
    /\ last = [op |-> "MakeFileSystem", err |-> "", stop |-> FALSE]
    /\ gh = NoFile
    /\ aborted = FALSE
    /\ unit = [of |-> "allocBlocks", held |-> << >>, calls |-> 0, need |-> 0, hlimit |-> 0,
               blks |-> << >>, got |-> 0, err |-> "", fb |-> 0, pre |-> fs]

\* doAlloc: StatBlocks, allocBlocks(need, hlimit, big), StatBlocks
AllocStep(need, hlimit, bigAlloc) ==
    LET Got(r) ==
            /\ fs' = r.s
            /\ unit' = [unit EXCEPT !.held = @ \o r.blks, !.calls = @ + 1, !.need = need,
                                    !.hlimit = hlimit, !.blks = r.blks, !.got = r.got,
                                    !.err = r.err, !.fb = StatBlocks(fs), !.pre = fs]
            /\ aborted' = r.panic
            /\ last' = [op |-> "allocBlocks", err |-> r.err, stop |-> r.panic]
            /\ UNCHANGED <<vf, files, gh>>
    IN  /\ unit.of = "allocBlocks" /\ unit.calls < MaxAllocCalls /\ ~aborted
        /\ Got(allocBlocks(fs, need, hlimit, bigAlloc))

\* releaseDataBlock on blocks handed out before
ReleaseStep(k, m) ==
    LET ptrs == EveryNth(unit.held, k, m)
        Got(r) ==
            /\ fs' = r.s
            /\ aborted' = r.panic
            /\ unit' = [unit EXCEPT !.held = SelectSeq(@, LAMBDA p : p \notin SeqSet(ptrs)),
                                    !.calls = @ + 1, !.blks = ptrs, !.fb = StatBlocks(fs),
                                    !.pre = fs]
            /\ last' = [op |-> "releaseDataBlock", err |-> r.err, stop |-> r.panic]
            /\ UNCHANGED <<vf, files, gh>>
    IN  /\ unit.of = "allocBlocks" /\ unit.calls < MaxAllocCalls /\ ~aborted
        /\ ptrs # << >>
        /\ Got(releaseDataBlock(fs, ptrs, {}))

NextAlloc ==
    \/ \E need \in {0, 1, 2, WordBits, WordBits + 1, BlocksInGroup - 1, BlocksInGroup + 2},
          slack \in {-2, -1, 0, 1}, b \in BOOLEAN :
              need + slack >= 0 /\ AllocStep(need, need + slack, b)
    \/ \E k \in 1..2, m \in 1..3 : ReleaseStep(k, m)

SpecAlloc == AllocInit /\ [][NextAlloc]_vars

\* ---------------------------------------------------------------- C15
\* C15: allocBlocks(n, handle_limit, big) with handle_limit >= n on a store
\* whose total free blocks is at least n succeeds, reports exactly n bits
\* obtained, and decreases the total free-block count across all groups by
\* exactly n, spilling to following groups when the cursor's group is
\* exhausted.  (Stated for requests of at least one block.)
AllocBlocksExact ==
    (unit.of = "allocBlocks" /\ last.op = "allocBlocks" /\ unit.need >= 1
        /\ unit.hlimit >= unit.need /\ unit.fb >= unit.need) =>
            /\ ~aborted
            /\ unit.err = ""
            /\ unit.got = unit.need
            /\ StatBlocks(fs) = unit.fb - unit.need

\* ---------------------------------------------------------------- C16
\* the inode pointers a 28-hex UID can carry that name no inode of the store:
\* group 0, a group above TotalGroups, or an index at or beyond InodesInGroup
BadInodePtrs ==
    {MakeEntAddr(i, g, FALSE) : i \in 0..(IdxSpan - 1), g \in 0..(GroupSpan - 1)} \ InodePtrs

\* C16: OpenFile and DeleteFile given any UID whose group is 0 or above
\* total_groups, or whose index is at or beyond the number of inodes per group,
\* return an error value and change no bitmap; they never panic or index
\* outside a bitmap.  (OpenFile is applied where readInode stays inside the
\* inode table or refuses the group.)
BadUidIsAnError ==
    \A p \in BadInodePtrs, q \in 0..1, t \in 0..MaxTime :
        LET uid == <<ShardId, p, q, t>>
            Same(r) == ~r.panic /\ r.err # "" /\ r.s.ib = fs.ib /\ r.s.bb = fs.bb
            Refused(o) == ~o.panic /\ ~o.ok /\ o.err # ""
        IN  /\ Same(DeleteFile(fs, uid, {}))
            /\ (~GroupOk(GetGroup(p))) => Refused(OpenFile(fs, uid, TRUE))

\* ---------------------------------------------------------------- the pointers of a file
\* The block pointers an inode leads to, in the order DeleteFile releases them:
\* the direct pointers in use, then under each indirect pointer the pointer
\* page itself and what its entries in use lead to.
RECURSIVE PagePtrs(_, _, _, _, _)
RECURSIVE SubTree(_, _, _, _)
\* the entries from i on of a pointer page of depth d, count data pointers left
PagePtrs(s, page, i, d, count) ==
    LET span == pow(BlockPointers, d - 1)
        c == MinOf(span, count)
    IN  IF count <= 0 \/ i > Len(page) THEN << >>
        ELSE SubTree(s, page[i], d - 1, c) \o PagePtrs(s, page, i + 1, d, count - c)
\* the block blk of depth d (0: a data block) and what it leads to; 0 is no block
SubTree(s, blk, d, count) ==
    IF blk = 0 THEN << >>
    ELSE IF d = 0 THEN <<blk>>
    ELSE <<blk>> \o PagePtrs(s, readBlock(s, blk, 0, PtrBytes * BlockPointers).data, 1, d, count)

\* every block pointer stored for the inode node
FilePtrs(s, node) ==
    LET direct == MinOf(node.Blocks, DirectBlocks)
        rest == IF node.Blocks > DirectBlocks THEN node.Blocks - DirectBlocks ELSE 0
        n1 == MinOf(rest, pow(BlockPointers, 1))
        n2 == MinOf(rest - n1, pow(BlockPointers, 2))
        n3 == rest - n1 - n2
        Under(ptr, d, n) == IF ptr > 0 /\ n > 0 THEN SubTree(s, ptr, d, n) ELSE << >>
    IN  SelectSeq(SubSeq(node.Direct, 1, direct), LAMBDA v : v # 0)
            \o Under(node.Single, 1, n1) \o Under(node.Double, 2, n2)
            \o Under(node.Triple, 3, n3)

\* the inodes whose bit is set in their group's inode bitmap
LiveInodes(s) == {p \in InodePtrs : isValidInode(s, p) = "valid"}

\* ---------------------------------------------------------------- C18
\* C18: when big allocation is disabled in the superblock, no address returned
\* by allocBlocks and no pointer stored in any live inode, pointer page or pointer
\* cache carries the big flag.
NoBigWhenDisabled ==
    (~fs.big) =>
        /\ \A p \in LiveInodes(fs) : \A i \in 1..Len(FilePtrs(fs, fs.inodes[p])) :
               GetBig(FilePtrs(fs, fs.inodes[p])[i]) = 0
        /\ \A lv \in Levels : \A b \in DOMAIN fs.cache[lv] :
               GetBig(b) = 0 /\ \A i \in 1..Len(fs.cache[lv][b]) : GetBig(fs.cache[lv][b][i]) = 0
        /\ unit.of = "allocBlocks" => \A i \in 1..Len(unit.held) : GetBig(unit.held[i]) = 0

NoBigWhenDisabledWitness ==
    /\ ~fs.big
    /\ last.op = "Write" /\ last.err = ""
    /\ Running /\ vf.Inode.Blocks >= WordBits + 1
    /\ vf.Inode.Double > 0
    /\ Len(FilePtrs(fs, fs.inodes[vf.Inodeptr])) = vf.Inode.Blocks + 3
    /\ \E lv \in Levels : DOMAIN fs.cache[lv] # {}

\* ---------------------------------------------------------------- C20
\* the blocks (group, index) a block pointer addresses: one, or a whole run
BlocksOf(ptr) ==
    {<<GetGroup(ptr), i>> :
        i \in GetIdx(ptr)..(GetIdx(ptr) + (IF GetBig(ptr) > 0 THEN WordBits ELSE 1) - 1)}

Readers == 1..2

\* The store holds two files: CreateFile and one Write of n1 bytes, then
\* CreateFile and one Write of n2 bytes; caller c opens the k-th of them.
ReadersInit ==
    /\ vf = NoHandle
    /\ gh = NoFile
    /\ aborted = FALSE
    /\ last = [op |-> "Write", err |-> "", stop |-> FALSE]
    /\ \E b \in BOOLEAN, n1 \in {1, BlockSize + 1, BigWrite}, n2 \in {1, BlockSize + 1, BigWrite},
          t \in 0..MaxTime,
          k1 \in 1..2, k2 \in 1..2 :
         \E c1 \in {CreateFile(NewFileSystem(b), t)} :
         \E w1 \in {Write(c1.s, c1.p, c1.node, c1.off, Batch(1, 0, 0, n1))} :
         \E c2 \in {CreateFile(w1.s, t)} :
         \E w2 \in {Write(c2.s, c2.p, c2.node, c2.off, Batch(2, 0, 0, n2))} :
           /\ fs = w2.s
           /\ files = <<[uid |-> c1.uid, live |-> TRUE], [uid |-> c2.uid, live |-> TRUE]>>
           /\ unit = [of |-> "Readers",
                      uid |-> <<files[k1].uid, files[k2].uid>>,
                      pc |-> [c \in Readers |-> "start"],
                      cursor |-> [g \in Groups |-> 0],
                      ok |-> [c \in Readers |-> FALSE],
                      node |-> [c \in Readers |-> ZeroInode],
                      out |-> [c \in Readers |-> << >>]]

\* readInode, first half: file.Seek(InodeOffset + idx * InodeSize)
ReaderSeek(c) ==
    LET p == KeyInodeptr(unit.uid[c])
    IN  /\ unit.of = "Readers" /\ unit.pc[c] = "start"
        /\ unit' = [unit EXCEPT !.pc[c] = "sought", !.cursor[GetGroup(p)] = GetIdx(p)]
        /\ last' = [op |-> "OpenFile", err |-> "", stop |-> FALSE]
        /\ UNCHANGED <<fs, vf, files, gh, aborted>>

\* readInode, second half: binary.Read takes the record under the cursor and
\* moves the cursor past it; then the rest of OpenFile
ReaderOpen(c) ==
    LET p == KeyInodeptr(unit.uid[c])
        g == GetGroup(p)
        at == MakeEntAddr(unit.cursor[g], g, FALSE)
        ri == IF at \in InodePtrs THEN [inode |-> fs.inodes[at], err |-> ""]
              ELSE [inode |-> ZeroInode, err |-> "EOF"]
        Opened(o) ==
            /\ unit' = [unit EXCEPT !.pc[c] = IF o.ok THEN "opened" ELSE "failed",
                                    !.cursor[g] = @ + 1,
                                    !.ok[c] = o.ok, !.node[c] = o.node]
            /\ last' = [op |-> "OpenFile", err |-> o.err, stop |-> FALSE]
            /\ UNCHANGED <<fs, vf, files, gh, aborted>>
    IN  /\ unit.of = "Readers" /\ unit.pc[c] = "sought"
        /\ Opened(OpenLoaded(fs, unit.uid[c], ri, TRUE))

\* SeekPos(0) and Read of file_size bytes through the caller's handle
ReaderRead(c) ==
    LET Got(r) ==
            /\ fs' = r.s
            /\ unit' = [unit EXCEPT !.pc[c] = "read", !.out[c] = r.out]
            /\ last' = [op |-> "Read", err |-> r.err, stop |-> FALSE]
            /\ UNCHANGED <<vf, files, gh, aborted>>
    IN  /\ unit.of = "Readers" /\ unit.pc[c] = "opened"
        /\ Got(ReadAll(fs, unit.node[c]))

NextReaders ==
    \E c \in Readers : ReaderSeek(c) \/ ReaderOpen(c) \/ ReaderRead(c)

SpecReaders == ReadersInit /\ [][NextReaders]_vars

\* ---------------------------------------------------------------- C19
\* C19: when two callers interleave only OpenFile, SeekPos and Read on one
\* FileSystem, each caller obtains the same results as when run alone: its
\* OpenFile succeeds with the inode of its UID, and its Read returns the bytes
\* of that file.
ReadersSameAsAlone ==
    unit.of = "Readers" =>
        \A c \in Readers :
            LET Same(a) ==
                    /\ unit.pc[c] \in {"opened", "failed", "read"} =>
                           /\ unit.ok[c] = a.ok
                           /\ unit.node[c] = a.node
                    /\ unit.pc[c] = "read" => unit.out[c] = ReadAll(fs, a.node).out
            IN  Same(OpenFile(fs, unit.uid[c], TRUE))

\* ---------------------------------------------------------------- C21
RECURSIVE Leaves(_, _, _)
RECURSIVE PageLeaves(_, _, _, _)
\* the non-zero data-block pointers under the entries from i on of a pointer page
PageLeaves(s, page, i, d) ==
    IF i > Len(page) THEN 0
    ELSE Leaves(s, page[i], d - 1) + PageLeaves(s, page, i + 1, d)
\* the non-zero data-block pointers under block blk of depth d (0: a data block)
Leaves(s, blk, d) ==
    IF blk = 0 THEN 0
    ELSE IF d = 0 THEN 1
    ELSE PageLeaves(s, readBlock(s, blk, 0, PtrBytes * BlockPointers).data, 1, d)

\* the non-zero data-block pointers reachable from an inode, each counted once
DataPointers(s, node) ==
    Cardinality({i \in 1..DirectBlocks : node.Direct[i] # 0})
        + Leaves(s, node.Single, 1) + Leaves(s, node.Double, 2) + Leaves(s, node.Triple, 3)

\* C21: after every successful CreateFile or Write (append or overwrite),
\* inode.blocks is the number of non-zero data-block pointers reachable from
\* the inode, direct slot i is non-zero exactly when i < min(blocks, direct
\* slots), and an indirect root is non-zero only if blocks exceeds the capacity
\* of the levels before it.
InodeShape ==
    (Running /\ Tracked /\ last.op \in {"CreateFile", "Write"}) =>
        LET Shaped(node) ==
                /\ node.Blocks = DataPointers(fs, node)
                /\ \A i \in 0..(DirectBlocks - 1) :
                       (node.Direct[i + 1] # 0) <=> (i < MinOf(node.Blocks, DirectBlocks))
                /\ node.Single # 0 => node.Blocks > DirectBlocks
                /\ node.Double # 0 => node.Blocks > DirectBlocks + BlockPointers
                /\ node.Triple # 0 =>
                       node.Blocks > DirectBlocks + BlockPointers + pow(BlockPointers, 2)
        IN  Shaped(StoredInode) /\ Shaped(vf.Inode)

\* ---------------------------------------------------------------- C22
\* SeekPos(p) and then Write of n bytes on the handle (p, node) leave the
\* metadata alone: the triple SeekPos leaves has rem >= meta_size when its
\* block is the first, and a Write that succeeds from it changes none of the
\* bytes [0, meta_size) of direct block 0, which OpenFile still decodes
MetaKept(s, ptr, node, p, n) ==
    LET Wrote(w) ==
            (~w.panic /\ w.err = "") =>
                /\ readBlock(w.s, node.Direct[1], 0, node.MetaSize).data
                       = readBlock(s, node.Direct[1], 0, node.MetaSize).data
                /\ OpenFile(w.s, inode2Uid(ptr, node), FALSE).ok
        Sought(k) ==
            (~k.panic /\ k.err = "") =>
                /\ k.off.blockIdx = 0 => k.off.rem >= node.MetaSize
                /\ Wrote(Write(s, ptr, node, k.off, Batch(Len(files), MaxRewrites + 1, p, n)))
    IN  Sought(SeekPos(s, node, p))

\* C22: for any sequence of SeekPos (any non-negative position, inside or
\* beyond the file) and Write calls on a file, no Write changes bytes
\* [0, meta_size) of direct block 0, OpenFile afterwards still returns the
\* metadata given at CreateFile, and whenever block_idx = 0 the rem_in_block of
\* the offset triple is at least meta_size.
UserBytesSpareMeta ==
    (Running /\ Tracked) =>
        /\ vf.off.blockIdx = 0 => vf.off.rem >= vf.Inode.MetaSize
        /\ OpenFile(fs, gh.uid, FALSE).ok
        /\ \A p \in 0..(vf.Inode.FileSize + 2), n \in 1..MaxWrite :
               MetaKept(fs, vf.Inodeptr, vf.Inode, p, n)

\* ---------------------------------------------------------------- C23
\* C23: after every successful allocInode, freeInode, allocBlocks and
\* releaseDataBlock, the inode-bitmap and block-bitmap bytes stored in each
\* volume file that exists equal the bitmap bytes in memory.
PersistedBitmapsTrackMemory ==
    (~aborted /\ last.err = "") =>
        \A g \in fs.mat :
            /\ fs.pib[g] = fs.ib[g].bits
            /\ fs.pbb[g] = fs.bb[g].bits

\* ---------------------------------------------------------------- C24
\* C24: for every bitmap state, cursor position and request with
\* handle_limit >= 1, AllocBits returns at most handle_limit addresses, also
\* when the scan reaches the end of the bitmap and wraps to position 0.
HandleLimitRespected ==
    (unit.of = "Bitmap64" /\ last.op = "AllocBits" /\ unit.hlimit >= 1) =>
        Len(unit.lst) <= unit.hlimit

\* ---------------------------------------------------------------- the two bitmaps over a history
\* BitmapBase.ClearBits: batchClearBits on the same bytes, then freeBits
BaseClearBits(bm, gid, ptrs) ==
    LET Back(r) == [bm |-> [r.bm EXCEPT !.n = bm.n], panic |-> r.panic]
    IN  Back(ClearBits([bm EXCEPT !.n = bm.n \div RunBytes], gid, ptrs))

\* One byte array, copied, handed to BitmapBase.Init and to Bitmap64.Init; then
\* the same AllocBits and ClearBits calls on both, ClearBits on addresses both
\* bitmaps returned and that are still held.
MaxPairCalls == 3
PairSeedBits == {0, 9}

PairInit ==
    /\ fs = NewFileSystem(TRUE)
    /\ vf = NoHandle
    /\ files = << >>
    /\ last = [op |-> "Init", err |-> "", stop |-> FALSE]
    /\ gh = NoFile
    /\ aborted = FALSE
    /\ \E data \in SUBSET PairSeedBits :
           unit = [of |-> "Pair", calls |-> 0,
                   bm1 |-> InitBase(data, BmBits), bm2 |-> InitBitmap(data, BmBits),
                   old1 |-> InitBase(data, BmBits), old2 |-> InitBitmap(data, BmBits),
                   lst1 |-> << >>, lst2 |-> << >>, n1 |-> 0, n2 |-> 0,
                   held1 |-> {}, held2 |-> {},
                   need |-> 0, hlimit |-> 0, big |-> FALSE]

PairAlloc(numBits, hlimit, bigAlloc) ==
    LET Got(r1, r2) ==
            /\ unit' = [unit EXCEPT !.calls = @ + 1, !.bm1 = r1.bm, !.bm2 = r2.bm,
                                    !.old1 = unit.bm1, !.old2 = unit.bm2,
                                    !.lst1 = r1.lst, !.lst2 = r2.lst,
                                    !.n1 = r1.cnt, !.n2 = r2.cnt,
                                    !.held1 = @ \cup SeqSet(r1.lst),
                                    !.held2 = @ \cup SeqSet(r2.lst),
                                    !.need = numBits, !.hlimit = hlimit, !.big = bigAlloc]
            /\ last' = [op |-> "AllocBits", err |-> "", stop |-> FALSE]
            /\ UNCHANGED <<fs, vf, files, gh, aborted>>
    IN  /\ unit.of = "Pair" /\ unit.calls < MaxPairCalls /\ ~aborted
        /\ Got(BaseAllocBits(unit.bm1, BmGroup, numBits, hlimit, bigAlloc),
               AllocBits(unit.bm2, BmGroup, numBits, hlimit, bigAlloc))

PairClear(ptrs) ==
    LET Got(r1, r2) ==
            /\ unit' = [unit EXCEPT !.calls = @ + 1, !.bm1 = r1.bm, !.bm2 = r2.bm,
                                    !.old1 = unit.bm1, !.old2 = unit.bm2,
                                    !.lst1 = SortedSeq(ptrs), !.lst2 = SortedSeq(ptrs),
                                    !.n1 = 0, !.n2 = 0,
                                    !.held1 = @ \ ptrs, !.held2 = @ \ ptrs]
            /\ aborted' = (r1.panic \/ r2.panic)
            /\ last' = [op |-> "ClearBits", err |-> "", stop |-> r1.panic \/ r2.panic]
            /\ UNCHANGED <<fs, vf, files, gh>>
    IN  /\ unit.of = "Pair" /\ unit.calls < MaxPairCalls /\ ~aborted
        /\ ptrs # {}
        /\ Got(BaseClearBits(unit.bm1, BmGroup, SortedSeq(ptrs)),
               ClearBits(unit.bm2, BmGroup, SortedSeq(ptrs)))

NextPair ==
    \/ \E n \in {0, 1, WordBits - 1, WordBits + 1, 2 * WordBits}, h \in {2, 2 * WordBits},
          b \in BOOLEAN : PairAlloc(n, h, b)
    \/ \E ptrs \in SUBSET (unit.held1 \cap unit.held2) : PairClear(ptrs)

SpecPair == PairInit /\ [][NextPair]_vars

\* ---------------------------------------------------------------- C25
\* the bit indexes an address names: one bit, or a run of WordBits bits
RunOf(a) == GetIdx(a)..(GetIdx(a) + (IF GetBig(a) > 0 THEN WordBits ELSE 1) - 1)

\* lst and cnt describe exactly the change from the bits before to the bits after
ExactlyReturned(before, after, lst, cnt) ==
    /\ \A i \in 1..Len(lst) : RunOf(lst[i]) \cap before = {} /\ RunOf(lst[i]) \subseteq after
    /\ \A i, j \in 1..Len(lst) : i # j => RunOf(lst[i]) \cap RunOf(lst[j]) = {}
    /\ after = before \cup UNION {RunOf(lst[i]) : i \in 1..Len(lst)}
    /\ cnt = Cardinality({i \in 1..Len(lst) : GetBig(lst[i]) = 0})
             + WordBits * Cardinality({i \in 1..Len(lst) : GetBig(lst[i]) > 0})

\* C25: after every AllocBits call (on BitmapBase and on Bitmap64, at any cursor
\* position), every returned single address names a bit that was clear before
\* and is set after, every returned big address names a run of bits all clear
\* before and all set after, the runs are pairwise disjoint, no other bit
\* changed, the total is singles + run length x bigs, and the total does not
\* exceed n_wanted when n_wanted >= 1.
AllocBitsChangesWhatItReturns ==
    (unit.of = "Pair" /\ last.op = "AllocBits") =>
        /\ ExactlyReturned(unit.old1.bits, unit.bm1.bits, unit.lst1, unit.n1)
        /\ ExactlyReturned(unit.old2.bits, unit.bm2.bits, unit.lst2, unit.n2)
        /\ unit.need >= 1 => (unit.n1 <= unit.need /\ unit.n2 <= unit.need)

\* a call after a ClearBits call that wrapped to position 0 and returned a run
\* and singles, in both bitmaps
AllocBitsChangesWhatItReturnsWitness ==
    /\ unit.of = "Pair" /\ last.op = "AllocBits" /\ unit.calls = MaxPairCalls
    /\ \E i \in 1..Len(unit.lst2) : GetBig(unit.lst2[i]) > 0
    /\ \E i \in 1..Len(unit.lst2) : GetBig(unit.lst2[i]) = 0
    /\ \E i \in 1..Len(unit.lst1) : GetBig(unit.lst1[i]) > 0
    /\ \E i \in 2..Len(unit.lst2) : GetIdx(unit.lst2[i]) < GetIdx(unit.lst2[i - 1])
    /\ \E i \in 2..Len(unit.lst1) : GetIdx(unit.lst1[i]) < GetIdx(unit.lst1[i - 1])
    /\ unit.old2.bits # {}

\* ---------------------------------------------------------------- C26
\* C26: every big address AllocBits returns starts at a multiple of the run
\* length (64 in the program, WordBits here).
BigRunsAligned ==
    (unit.of = "Bitmap64" /\ last.op = "AllocBits") =>
        \A i \in 1..Len(unit.lst) :
            GetBig(unit.lst[i]) > 0 => GetIdx(unit.lst[i]) % WordBits = 0

\* ---------------------------------------------------------------- C27
\* C27: every big address AllocBits returns (BitmapBase and Bitmap64) names a
\* run that ends inside the bitmap, index + run length <= total_bits, and
\* ClearBits of that address stays inside the bitmap bytes (does not abort).
NoRunPastEnd ==
    (unit.of = "Pair" /\ last.op = "AllocBits") =>
        /\ \A i \in 1..Len(unit.lst1) :
               GetBig(unit.lst1[i]) > 0 =>
                   /\ GetIdx(unit.lst1[i]) + WordBits <= unit.bm1.n * ByteBits
                   /\ ~BaseClearBits(unit.bm1, BmGroup, <<unit.lst1[i]>>).panic
        /\ \A i \in 1..Len(unit.lst2) :
               GetBig(unit.lst2[i]) > 0 =>
                   /\ GetIdx(unit.lst2[i]) + WordBits <= TotalBits(unit.bm2)
                   /\ ~ClearBits(unit.bm2, BmGroup, <<unit.lst2[i]>>).panic

\* both bitmaps returned the last run that fits: it ends one bit before the end
NoRunPastEndWitness ==
    /\ unit.of = "Pair" /\ last.op = "AllocBits"
    /\ \E i \in 1..Len(unit.lst1) :
           GetBig(unit.lst1[i]) > 0 /\ GetIdx(unit.lst1[i]) + WordBits = BmBits - 1
    /\ \E i \in 1..Len(unit.lst2) :
           GetBig(unit.lst2[i]) > 0 /\ GetIdx(unit.lst2[i]) + WordBits = BmBits - 1
    /\ unit.bm2.freeBits = 0

BitmapsInterchangeable ==
    unit.of = "Pair" =>
        /\ unit.lst1 = unit.lst2
        /\ unit.n1 = unit.n2
        /\ unit.bm1.bits = unit.bm2.bits
        /\ unit.bm1.freeBits = unit.bm2.freeBits

\* ---------------------------------------------------------------- mergeSeg alone
\* mergeSeg applied to an address list as AllocBits returns it without
\* wrapping: singles and runs of one group, sorted by bit index, pairwise disjoint.
MaxSegAddrs == 3
SegAddrs ==
    {MakeEntAddr(i, BmGroup, FALSE) : i \in 0..(BmBits - 1)}
        \cup {MakeEntAddr(i, BmGroup, TRUE) : i \in 0..(BmBits - WordBits - 1)}

SegSorted(q) ==
    \A i, j \in 1..Len(q) :
        i < j => (GetIdx(q[i]) < GetIdx(q[j]) /\ RunOf(q[i]) \cap RunOf(q[j]) = {})

SegInit ==
    /\ fs = NewFileSystem(TRUE)
    /\ vf = NoHandle
    /\ files = << >>
    /\ last = [op |-> "Init", err |-> "", stop |-> FALSE]
    /\ gh = NoFile
    /\ aborted = FALSE
    /\ \E n \in 1..MaxSegAddrs : \E q \in [1..n -> SegAddrs] :
           /\ SegSorted(q)
           /\ unit = [of |-> "Seg", step |-> "given", addr |-> q, segs |-> << >>, bits |-> 0]

SegMerge ==
    LET Got(r) ==
            /\ unit' = [unit EXCEPT !.step = "merged", !.segs = r.segs, !.bits = r.bits]
            /\ last' = [op |-> "mergeSeg", err |-> "", stop |-> FALSE]
            /\ UNCHANGED <<fs, vf, files, gh, aborted>>
    IN  /\ unit.of = "Seg" /\ unit.step = "given"
        /\ Got(mergeSeg(unit.addr))

NextSeg == SegMerge

SpecSeg == SegInit /\ [][NextSeg]_vars

\* ---------------------------------------------------------------- C30
\* the bitmap bytes the spans cover
SegBytes(segs) ==
    UNION {segs[k].offset..(segs[k].offset + segs[k].length - 1) : k \in 1..Len(segs)}

\* C30: for every address list sorted by bit index (singles and runs starting
\* at any bit offset, adjacent or separated by gaps), the spans mergeSeg returns
\* contain every bitmap byte that holds a bit named by some address, and the
\* count is singles + run length x bigs.
MergeSegCovers ==
    (unit.of = "Seg" /\ unit.step = "merged") =>
        /\ \A i \in 1..Len(unit.addr) : \A b \in RunOf(unit.addr[i]) :
               (b \div ByteBits) \in SegBytes(unit.segs)
        /\ unit.bits = Cardinality({i \in 1..Len(unit.addr) : GetBig(unit.addr[i]) = 0})
               + WordBits * Cardinality({i \in 1..Len(unit.addr) : GetBig(unit.addr[i]) > 0})

\* ---------------------------------------------------------------- C31
\* C31: when the free block bits of all groups together are fewer than n_wanted,
\* allocBlocks returns the not-enough-free-blocks error with no address and
\* leaves the store (bitmaps, free counters, group files, group cursor) as it
\* was; when they are at least n_wanted the call does not return that error.
AllocBlocksFailsCleanly ==
    (unit.of = "allocBlocks" /\ last.op = "allocBlocks") =>
        /\ unit.fb < unit.need =>
               /\ ~aborted
               /\ unit.err = "Not enough free blocks"
               /\ unit.blks = << >> /\ unit.got = 0
               /\ fs = unit.pre
        /\ unit.fb >= unit.need => unit.err # "Not enough free blocks"

\* a refused call on a store whose cursor has moved on and that still holds
\* free blocks
AllocBlocksFailsCleanlyWitness ==
    /\ unit.of = "allocBlocks" /\ last.op = "allocBlocks"
    /\ unit.fb < unit.need /\ unit.fb > 0
    /\ unit.err = "Not enough free blocks"
    /\ fs.cur # 0
    /\ unit.held # << >>

\* ---------------------------------------------------------------- C32
\* the group indexes the cursor went past on its way from index from to index to
PassedGroups(from, to) ==
    {i \in 0..(TotalGroups - 1) :
        (i - from + TotalGroups) % TotalGroups < (to - from + TotalGroups) % TotalGroups}

\* C32: after every allocBlocks call, every group the rotating cursor went past
\* during the call has no free block bit left, and every address the call
\* returned lies in a group the cursor went past or in the group it rests on.
CursorLeavesOnlyFullGroups ==
    (unit.of = "allocBlocks" /\ last.op = "allocBlocks" /\ ~aborted) =>
        /\ \A i \in PassedGroups(unit.pre.cur, fs.cur) : fs.bb[i + 1].freeBits = 0
        /\ \A k \in 1..Len(unit.blks) :
               (GetGroup(unit.blks[k]) - 1) \in PassedGroups(unit.pre.cur, fs.cur) \cup {fs.cur}

\* ---------------------------------------------------------------- core/cache.go
\* BlockCacheSize (128), scaled
BlockCacheSize == 2

\* A CacheLayer is [capacity, cache : blockPtr -> list element, list : the
\* elements front first, elems : element -> CachedBlock, made : elements made so far].
NewCacheLayer(capacity) ==
    [capacity |-> capacity, cache |-> << >>, list |-> << >>, elems |-> << >>, made |-> 0]

\* list.MoveToFront
MoveToFront(lst, elem) == <<elem>> \o SelectSeq(lst, LAMBDA e : e # elem)

\* a Get that reads without moving the element
LayerGetNoTouch(c, blockPtr) ==
    IF blockPtr \in DOMAIN c.cache
    THEN [c |-> c, data |-> c.elems[c.cache[blockPtr]].data, found |-> TRUE]
    ELSE [c |-> c, data |-> 0, found |-> FALSE]

\* CacheLayer.Get: [c, data, found]
LayerGet(c, blockPtr) ==
    IF blockPtr \in DOMAIN c.cache
    THEN [c |-> [c EXCEPT !.list = MoveToFront(@, c.cache[blockPtr])],
          data |-> c.elems[c.cache[blockPtr]].data, found |-> TRUE]
    ELSE [c |-> c, data |-> 0, found |-> FALSE]

\* CacheLayer.Put
LayerPut(c, blockPtr, data) ==
    IF blockPtr \in DOMAIN c.cache
    THEN [c EXCEPT !.elems[c.cache[blockPtr]].data = data,
                   !.list = MoveToFront(@, c.cache[blockPtr])]
    ELSE LET full == Len(c.list) = c.capacity
             back == c.list[Len(c.list)]
             evict == full /\ Len(c.list) > 0
             lst1 == IF evict THEN SubSeq(c.list, 1, Len(c.list) - 1) ELSE c.list
             map1 == IF evict
                     THEN [k \in DOMAIN c.cache \ {c.elems[back].blockPtr} |-> c.cache[k]]
                     ELSE c.cache
             new == c.made + 1
         IN  [c EXCEPT !.made = new,
                       !.list = <<new>> \o lst1,
                       !.elems = [e \in DOMAIN c.elems \cup {new} |->
                                     IF e = new THEN [blockPtr |-> blockPtr, data |-> data]
                                     ELSE c.elems[e]],
                       !.cache = [k \in DOMAIN map1 \cup {blockPtr} |->
                                     IF k = blockPtr THEN new ELSE map1[k]]]

\* NewBlockCache: level -> CacheLayer
NewBlockCache == [lv \in Levels |-> NewCacheLayer(BlockCacheSize)]

\* BlockCache.Get: [m, data, found]; an unknown level finds nothing
BlockCacheGet(m, level, blockPtr) ==
    LET Got(r) == [m |-> [m EXCEPT ![level] = r.c], data |-> r.data, found |-> r.found]
    IN  IF level \in Levels THEN Got(LayerGet(m[level], blockPtr))
        ELSE [m |-> m, data |-> 0, found |-> FALSE]

\* BlockCache.Put; an unknown level stores nothing
BlockCachePut(m, level, blockPtr, data) ==
    IF level \in Levels THEN [m EXCEPT ![level] = LayerPut(m[level], blockPtr, data)] ELSE m

\* ---------------------------------------------------------------- the pointer cache alone
\* A BlockCache driven by Get and Put calls.  touch[lv][k] is the number of the
\* last call that found or stored key k on level lv.
MaxCacheCalls == 4
CacheKeys == 1..3
CacheLevels == 0..3

CacheInit ==
    /\ fs = NewFileSystem(TRUE)
    /\ vf = NoHandle
    /\ files = << >>
    /\ last = [op |-> "Init", err |-> "", stop |-> FALSE]
    /\ gh = NoFile
    /\ aborted = FALSE
    /\ unit = [of |-> "BlockCache", m |-> NewBlockCache, old |-> NewBlockCache, calls |-> 0,
               level |-> 0, key |-> 0, data |-> 0, found |-> FALSE,
               touch |-> [lv \in Levels |-> [k \in CacheKeys |-> 0]]]

CacheGetStep(level, key) ==
    LET Got(r) ==
            /\ unit' = [unit EXCEPT !.m = r.m, !.old = unit.m, !.calls = @ + 1,
                                    !.level = level, !.key = key, !.data = r.data,
                                    !.found = r.found,
                                    !.touch = IF r.found
                                              THEN [@ EXCEPT ![level][key] = unit.calls + 1]
                                              ELSE @]
            /\ last' = [op |-> "Get", err |-> "", stop |-> FALSE]
            /\ UNCHANGED <<fs, vf, files, gh, aborted>>
    IN  /\ unit.of = "BlockCache" /\ unit.calls < MaxCacheCalls
        /\ Got(BlockCacheGet(unit.m, level, key))

CachePutStep(level, key) ==
    LET data == 10 * (unit.calls + 1) + key
        Got(m) ==
            /\ unit' = [unit EXCEPT !.m = m, !.old = unit.m, !.calls = @ + 1,
                                    !.level = level, !.key = key, !.data = data,
                                    !.found = FALSE,
                                    !.touch = IF level \in Levels
                                              THEN [@ EXCEPT ![level][key] = unit.calls + 1]
                                              ELSE @]
            /\ last' = [op |-> "Put", err |-> "", stop |-> FALSE]
            /\ UNCHANGED <<fs, vf, files, gh, aborted>>
    IN  /\ unit.of = "BlockCache" /\ unit.calls < MaxCacheCalls
        /\ Got(BlockCachePut(unit.m, level, key, data))

NextCache ==
    \/ \E level \in CacheLevels, key \in CacheKeys : CacheGetStep(level, key)
    \/ \E level \in CacheLevels, key \in CacheKeys : CachePutStep(level, key)

SpecCache == CacheInit /\ [][NextCache]_vars

\* ---------------------------------------------------------------- C33
\* the keys a level holds, and the value stored for one of them
LayerKeys(c) == DOMAIN c.cache
LayerData(c, k) == c.elems[c.cache[k]].data

\* map and list of a level name the same entries, one list element per key
LayerOneToOne(c) ==
    /\ Len(c.list) <= c.capacity
    /\ Len(c.list) = Cardinality(LayerKeys(c))
    /\ \A i, j \in 1..Len(c.list) : i # j => c.list[i] # c.list[j]
    /\ \A k \in LayerKeys(c) :
           /\ \E i \in 1..Len(c.list) : c.list[i] = c.cache[k]
           /\ c.elems[c.cache[k]].blockPtr = k

\* the key of level lv that was touched longest ago, before the last call
LeastRecent(lv) ==
    CHOOSE k \in LayerKeys(unit.old[lv]) :
        \A j \in LayerKeys(unit.old[lv]) : unit.touch[lv][k] <= unit.touch[lv][j]

\* C33: after any sequence of Get and Put calls every level holds at most
\* BlockCacheSize entries with map and list in one-to-one correspondence; a Put
\* of a new key into a full level evicts exactly the entry least recently
\* touched by Get or Put on that level; a Put of an existing key replaces its
\* value and evicts nothing; a Get returns the stored value; no call changes
\* the entries of another level.
CacheLruDiscipline ==
    unit.of = "BlockCache" =>
        /\ \A lv \in Levels : LayerOneToOne(unit.m[lv])
        /\ \A lv \in Levels \ {unit.level} :
               /\ LayerKeys(unit.m[lv]) = LayerKeys(unit.old[lv])
               /\ unit.m[lv].list = unit.old[lv].list
               /\ \A k \in LayerKeys(unit.m[lv]) :
                      LayerData(unit.m[lv], k) = LayerData(unit.old[lv], k)
        /\ (last.op = "Put" /\ unit.level \in Levels) =>
               LET was == unit.old[unit.level]
                   now == unit.m[unit.level]
                   kept == IF unit.key \in LayerKeys(was) THEN LayerKeys(was)
                           ELSE IF Cardinality(LayerKeys(was)) = was.capacity
                           THEN LayerKeys(was) \ {LeastRecent(unit.level)}
                           ELSE LayerKeys(was)
               IN  /\ LayerKeys(now) = kept \cup {unit.key}
                   /\ LayerData(now, unit.key) = unit.data
                   /\ \A k \in kept \ {unit.key} : LayerData(now, k) = LayerData(was, k)
        /\ (last.op = "Get" /\ unit.level \in Levels) =>
               LET was == unit.old[unit.level]
                   now == unit.m[unit.level]
               IN  /\ LayerKeys(now) = LayerKeys(was)
                   /\ \A k \in LayerKeys(now) : LayerData(now, k) = LayerData(was, k)
                   /\ unit.found = (unit.key \in LayerKeys(was))
                   /\ unit.found => unit.data = LayerData(was, unit.key)

\* a Put of a new key into a full level whose older entry was read after the
\* newer one was stored: the newer entry is the one evicted
CacheLruDisciplineWitness ==
    /\ unit.of = "BlockCache" /\ last.op = "Put" /\ unit.level \in Levels
    /\ Cardinality(LayerKeys(unit.old[unit.level])) = BlockCacheSize
    /\ unit.key \notin LayerKeys(unit.old[unit.level])
    /\ \E k \in LayerKeys(unit.m[unit.level]) \ {unit.key} :
           unit.old[unit.level].cache[k] < unit.old[unit.level].cache[LeastRecent(unit.level)]

\* ---------------------------------------------------------------- C34
RECURSIVE PointerPages(_, _, _)
\* the pointer pages <<level, block>> under block blk of depth d, read from disk
PointerPages(s, blk, d) ==
    IF blk = 0 \/ d = 0 THEN {}
    ELSE LET page == readBlock(s, blk, 0, PtrBytes * BlockPointers).data
         IN  {<<d, blk>>} \cup UNION {PointerPages(s, page[i], d - 1) : i \in 1..Len(page)}

\* the pointer pages of an inode with their levels
FilePages(s, node) ==
    PointerPages(s, node.Single, 1) \cup PointerPages(s, node.Double, 2)
        \cup PointerPages(s, node.Triple, 3)

\* C34: in every state the calls reach without aborting, for every block that
\* serves as a level-L pointer page of a live file and has an entry in the
\* level-L cache, the cached array has BlockPointers entries and equals the
\* page on disk, so that readPointerWithCache returns what readPointer returns.
PointerCacheCoherent ==
    (~aborted) =>
        \A p \in LiveInodes(fs) : \A pg \in FilePages(fs, fs.inodes[p]) :
            CacheHas(fs, pg[1], pg[2]) =>
                /\ Len(fs.cache[pg[1]][pg[2]]) = BlockPointers
                /\ fs.cache[pg[1]][pg[2]] = readPointer(fs, pg[2], BlockPointers, 0).ptrs
                /\ readPointerWithCache(fs, pg[2], BlockPointers, 0, pg[1]).ptrs
                       = readPointer(fs, pg[2], BlockPointers, 0).ptrs

\* ---------------------------------------------------------------- C35
\* C35: in every state with an open handle on a live file, Write of an empty
\* buffer returns 0 without error and leaves the inode (blocks, file size,
\* pointers), the pointer pages on disk, the free-block count and the offset
\* triple as they were.
ZeroLengthWriteIsNoOp ==
    (Running /\ Tracked) =>
        LET r == Write(fs, vf.Inodeptr, vf.Inode, vf.off, << >>)
        IN  /\ ~r.panic /\ r.err = "" /\ r.tot = 0
            /\ r.node = vf.Inode
            /\ r.off = vf.off
            /\ r.s.inodes = fs.inodes
            /\ r.s.disk = fs.disk
            /\ StatBlocks(r.s) = StatBlocks(fs)

\* ---------------------------------------------------------------- a store that runs full
\* Other files take blocks of the store (allocBlocks), and one client creates a
\* file, appends to it and deletes it while the free blocks run out.
MaxFullCalls == 5
\* the blocks the other files leave free at first
MaxFullLeft == 5
FullLens == {1, 2 * BlockSize, 3 * BlockSize, 5 * BlockSize}

FullInit ==
    /\ \E b \in BOOLEAN : fs = NewFileSystem(b)
    /\ vf = NoHandle
    /\ files = << >>
    /\ last = [op |-> "MakeFileSystem", err |-> "", stop |-> FALSE]
    /\ gh = NoFile
    /\ aborted = FALSE
    /\ unit = [of |-> "full", calls |-> 0, step |-> "start", pre |-> fs, short |-> FALSE,
               taken |-> 0]

\* another file takes n blocks; taken: the blocks other files took since the
\* client's CreateFile
FullFill(n) ==
    LET Got(r) ==
            /\ fs' = r.s
            /\ aborted' = r.panic
            /\ unit' = [unit EXCEPT !.calls = @ + 1, !.taken = @ + Len(r.blks)]
            /\ last' = [op |-> "allocBlocks", err |-> r.err, stop |-> FALSE]
            /\ UNCHANGED <<vf, files, gh>>
    IN  /\ unit.of = "full" /\ unit.calls < MaxFullCalls /\ ~aborted
        /\ unit.step \in {"start", "created"}
        /\ n <= StatBlocks(fs)
        /\ Got(allocBlocks(fs, n, n, FALSE))

\* the client calls CreateFile; pre is the store just before the call
FullCreate ==
    LET Created(r) ==
            /\ fs' = r.s
            /\ aborted' = r.panic
            /\ last' = [op |-> "CreateFile", err |-> r.err, stop |-> FALSE]
            /\ unit' = [unit EXCEPT !.calls = @ + 1, !.pre = fs, !.taken = 0,
                                    !.step = IF r.ok THEN "created" ELSE "refused"]
            /\ vf' = IF r.ok
                     THEN [open |-> TRUE, Inodeptr |-> r.p, Inode |-> r.node, off |-> r.off]
                     ELSE vf
            /\ files' = IF r.ok THEN <<[uid |-> r.uid, live |-> TRUE]>> ELSE files
            /\ UNCHANGED gh
    IN  /\ unit.of = "full" /\ unit.calls < MaxFullCalls /\ ~aborted
        /\ unit.step = "start"
        /\ Created(CreateFile(fs, 0))

\* the client appends n bytes; short: a Write failed for lack of free blocks
FullWrite(n) ==
    LET Wrote(r) ==
            /\ fs' = r.s
            /\ aborted' = r.panic
            /\ vf' = [vf EXCEPT !.Inode = r.node, !.off = r.off]
            /\ last' = [op |-> "Write", err |-> r.err, stop |-> FALSE]
            /\ unit' = [unit EXCEPT !.calls = @ + 1,
                                    !.short = @ \/ (~r.panic /\ r.err # "")]
            /\ UNCHANGED <<files, gh>>
    IN  /\ unit.of = "full" /\ unit.calls < MaxFullCalls /\ ~aborted
        /\ unit.step = "created"
        /\ Wrote(Write(fs, vf.Inodeptr, vf.Inode, vf.off, Batch(1, 0, vf.off.offset, n)))

\* the client deletes its file
FullDelete ==
    LET Deleted(r) ==
            /\ fs' = r.s
            /\ aborted' = r.panic
            /\ last' = [op |-> "DeleteFile", err |-> r.err, stop |-> FALSE]
            /\ unit' = [unit EXCEPT !.calls = @ + 1, !.step = "deleted"]
            /\ vf' = NoHandle
            /\ files' = <<[files[1] EXCEPT !.live = FALSE]>>
            /\ UNCHANGED gh
    IN  /\ unit.of = "full" /\ unit.calls < MaxFullCalls /\ ~aborted
        /\ unit.step = "created"
        /\ Deleted(DeleteFile(fs, files[1].uid, {}))

NextFull ==
    \/ \E n \in (1..2) \cup ((2 * BlocksInGroup - MaxFullLeft)..(2 * BlocksInGroup)) : FullFill(n)
    \/ FullCreate
    \/ \E n \in FullLens : FullWrite(n)
    \/ FullDelete

SpecFull == FullInit /\ [][NextFull]_vars

\* ---------------------------------------------------------------- C36
\* C36: when CreateFile fails although a free inode was there (it found the
\* inode and then no data block), the free-inode count and the bits of every
\* inode bitmap are as they were before the call.
FailedCreateLeaksNothing ==
    (unit.of = "full" /\ unit.step = "refused" /\ StatInodes(unit.pre) > 0) =>
        /\ StatInodes(fs) = StatInodes(unit.pre)
        /\ \A g \in Groups : fs.ib[g].bits = unit.pre.ib[g].bits

\* ---------------------------------------------------------------- C37
\* C37: when a Write to the file failed for lack of free blocks, the DeleteFile
\* of that file succeeds and the free-block and free-inode counts are those
\* before the file's CreateFile, less the blocks other files took since.
DeleteAfterFailedAppendReturnsAll ==
    (unit.of = "full" /\ unit.step = "deleted" /\ unit.short) =>
        /\ last.err = ""
        /\ StatInodes(fs) = StatInodes(unit.pre)
        /\ StatBlocks(fs) = StatBlocks(unit.pre) - unit.taken

\* ---------------------------------------------------------------- MakeFileSystem on a new root
\* dpfs/meta.go and volume.go in their own sizes: the superblock that
\* MakeFileSystem sets up from its parameters, the superblock the first write
\* puts on the volume, and the MakeFileSystem that loads it again.
SuperBlockMagic == 21930
DefaultBlockSize == 8192
MaxBlockGroupNum == 1024
DefaultInodesRatio == 4
DefaultBlocksInGroup == 1048576

\* SuperBlock.Checksum: the CRC of the fields printed one after the other,
\* kept as the list of the fields
Checksum(sb) ==
    <<sb.BlockSize, sb.TotalGroups, sb.BlocksInGroup, sb.InodesRatio, sb.ShardId, sb.Attr,
      sb.Magic>>

\* SuperBlock.Sign
Sign(sb) ==
    LET m == [sb EXCEPT !.Magic = SuperBlockMagic]
    IN  [m EXCEPT !.Crc = Checksum(m)]

\* SuperBlock.Verify: the error, "" for nil
Verify(sb) ==
    IF sb.Magic # SuperBlockMagic THEN "Bad magic"
    ELSE IF sb.BlockSize % 4096 # 0 THEN "Invalid BlockSize"
    ELSE IF sb.BlocksInGroup % 1024 # 0 THEN "Invalid BlocksInGroup"
    ELSE IF sb.InodesRatio % DefaultInodesRatio # 0 THEN "Invalid InodesRatio"
    ELSE IF (sb.BlocksInGroup \div sb.InodesRatio) % 64 # 0 THEN "Invalid InodesRatio"
    ELSE IF sb.Crc # Checksum(sb) THEN "Bad Crc"
    ELSE ""

\* Bitmap64.Init panics on a buffer whose length is no multiple of 8
Bitmap64InitPanics(bytes) == bytes % 8 # 0

\* VolumeFiles.initGroups and initParas with the superblock sb: "abort" for a
\* Go panic (Bitmap64.Init of a group, or groups[0] of no group), else "ok"
initGroups(sb) ==
    LET ninode == sb.BlocksInGroup \div sb.InodesRatio
    IN  IF sb.TotalGroups > 0 /\ (\/ Bitmap64InitPanics(sb.BlocksInGroup \div 8)
                                  \/ Bitmap64InitPanics(ninode \div 8))
        THEN "abort"
        ELSE IF sb.TotalGroups = 0 THEN "abort"
        ELSE "ok"

\* VolumeFiles.loadMeta over the superblocks of the volume files found
\* (one file here): [err, smeta]
VolumeLoadMeta(found, setup) ==
    IF found = << >> THEN [err |-> "", smeta |-> setup]
    ELSE IF Verify(found[1]) # "" THEN [err |-> "Super block not found", smeta |-> setup]
    ELSE [err |-> "", smeta |-> found[1]]

\* MakeFileSystem(groupNum, blocksInGroup, ..., shardId 0, enableBigAlloc) over
\* a root with the volume superblocks found: [out, err, smeta]
MakeFileSystem(groupNum, blocksInGroup, enableBigAlloc, found) ==
    LET setup == [BlockSize |-> DefaultBlockSize, TotalGroups |-> groupNum,
                  BlocksInGroup |-> IF blocksInGroup = 0 THEN DefaultBlocksInGroup
                                    ELSE blocksInGroup,
                  InodesRatio |-> DefaultInodesRatio, ShardId |-> 0,
                  Attr |-> IF enableBigAlloc THEN 1 ELSE 0, Magic |-> 0, Crc |-> << >>]
        Loaded(m) ==
            IF m.err # "" THEN [out |-> "error", err |-> m.err, smeta |-> setup]
            ELSE IF initGroups(m.smeta) = "abort"
            THEN [out |-> "abort", err |-> "", smeta |-> m.smeta]
            ELSE IF found # << >> /\ found[1].Crc # m.smeta.Crc
            THEN [out |-> "error", err |-> "Bad super block found", smeta |-> m.smeta]
            ELSE [out |-> "ok", err |-> "", smeta |-> m.smeta]
    IN  Loaded(VolumeLoadMeta(found, setup))

MakeGroupNums == {0, 1, 2, MaxBlockGroupNum, MaxBlockGroupNum + 1}
MakeBlocksInGroup == {0, 8, 64, 100, 256, 512, 1000, 1024, 1536, 2048, DefaultBlocksInGroup}

MakeInit ==
    /\ fs = NewFileSystem(FALSE)
    /\ vf = NoHandle
    /\ files = << >>
    /\ last = [op |-> "", err |-> "", stop |-> FALSE]
    /\ gh = NoFile
    /\ aborted = FALSE
    /\ \E g \in MakeGroupNums, b \in MakeBlocksInGroup, big \in BOOLEAN :
           unit = [of |-> "MakeFileSystem", step |-> "args", groupNum |-> g,
                   blocksInGroup |-> b, big |-> big, out |-> "", err |-> "",
                   smeta |-> << >>, volume |-> << >>]

\* MakeFileSystem over the new root
MakeStep ==
    LET Got(r) ==
            /\ unit' = [unit EXCEPT !.step = "made", !.out = r.out, !.err = r.err,
                                    !.smeta = r.smeta]
            /\ aborted' = (r.out = "abort")
            /\ last' = [op |-> "MakeFileSystem", err |-> r.err, stop |-> r.out # "ok"]
            /\ UNCHANGED <<fs, vf, files, gh>>
    IN  /\ unit.of = "MakeFileSystem" /\ unit.step = "args"
        /\ Got(MakeFileSystem(unit.groupNum, unit.blocksInGroup, unit.big, << >>))

\* the first write: checkReady signs the superblock and writes it to the volume
MakeWriteStep ==
    /\ unit.of = "MakeFileSystem" /\ unit.step = "made" /\ unit.out = "ok"
    /\ unit' = [unit EXCEPT !.step = "written", !.volume = <<Sign(unit.smeta)>>]
    /\ last' = [op |-> "checkReady", err |-> "", stop |-> FALSE]
    /\ UNCHANGED <<fs, vf, files, gh, aborted>>

\* MakeFileSystem again over the same root, with any parameters
MakeAgainStep(g, b) ==
    LET Got(r) ==
            /\ unit' = [unit EXCEPT !.step = "reloaded", !.out = r.out, !.err = r.err,
                                    !.smeta = r.smeta]
            /\ aborted' = (r.out = "abort")
            /\ last' = [op |-> "MakeFileSystem", err |-> r.err, stop |-> r.out # "ok"]
            /\ UNCHANGED <<fs, vf, files, gh>>
    IN  /\ unit.of = "MakeFileSystem" /\ unit.step = "written"
        /\ Got(MakeFileSystem(g, b, unit.big, unit.volume))

NextMake ==
    \/ MakeStep
    \/ MakeWriteStep
    \/ \E g \in MakeGroupNums, b \in MakeBlocksInGroup : MakeAgainStep(g, b)

SpecMake == MakeInit /\ [][NextMake]_vars

\* the superblock constraints
SuperBlockOk(sb) ==
    /\ sb.TotalGroups \in 1..MaxBlockGroupNum
    /\ sb.BlocksInGroup % 1024 = 0
    /\ (sb.BlocksInGroup \div sb.InodesRatio) % 64 = 0

\* ---------------------------------------------------------------- C38
\* C38: MakeFileSystem on a new root never aborts; the superblock of a store
\* it accepts satisfies the superblock constraints; and MakeFileSystem over
\* the same root after the first write does not fail.
CreatedStoreReloads ==
    (unit.of = "MakeFileSystem" /\ unit.step # "args") =>
        /\ unit.out # "abort"
        /\ unit.out = "ok" => SuperBlockOk(unit.smeta)
        /\ unit.step = "reloaded" => unit.out = "ok"

\* ---------------------------------------------------------------- entity addresses alone
\* MakeEntAddr on any idx, group and big flag, and GetAddr on the word it made.
EntIdxs == 0..(2 * IdxSpan)
EntGroups == 0..(2 * GroupSpan)

EntInit ==
    /\ fs = NewFileSystem(FALSE)
    /\ vf = NoHandle
    /\ files = << >>
    /\ last = [op |-> "", err |-> "", stop |-> FALSE]
    /\ gh = NoFile
    /\ aborted = FALSE
    /\ \E i \in EntIdxs, g \in EntGroups, b \in BOOLEAN :
           unit = [of |-> "EntAddr", step |-> "args", idx |-> i, group |-> g, big |-> b,
                   addr |-> 0, err |-> "", got |-> << >>]

\* MakeEntAddr returns the word and no error
EntPack ==
    /\ unit.of = "EntAddr" /\ unit.step = "args"
    /\ unit' = [unit EXCEPT !.step = "packed",
                            !.addr = MakeEntAddr(unit.idx, unit.group, unit.big),
                            !.err = ""]
    /\ last' = [op |-> "MakeEntAddr", err |-> "", stop |-> FALSE]
    /\ UNCHANGED <<fs, vf, files, gh, aborted>>

\* GetAddr on the packed word
EntUnpack ==
    /\ unit.of = "EntAddr" /\ unit.step = "packed"
    /\ unit' = [unit EXCEPT !.step = "unpacked",
                            !.got = <<GetIdx(unit.addr), GetGroup(unit.addr),
                                      GetBig(unit.addr)>>]
    /\ last' = [op |-> "GetAddr", err |-> "", stop |-> FALSE]
    /\ UNCHANGED <<fs, vf, files, gh, aborted>>

NextEnt ==
    \/ EntPack
    \/ EntUnpack

SpecEnt == EntInit /\ [][NextEnt]_vars

\* ---------------------------------------------------------------- C39
\* C39: for an idx below the index span and a group below the group span the
\* decoded word is the (idx, group, big) that was packed; for any other idx or
\* group the packing fails with an error.
EntAddrCheckedBijection ==
    (unit.of = "EntAddr" /\ unit.step = "unpacked") =>
        IF unit.idx < IdxSpan /\ unit.group < GroupSpan
        THEN unit.err = "" /\ unit.got = <<unit.idx, unit.group, IF unit.big THEN 1 ELSE 0>>
        ELSE unit.err # ""

====
